---- MODULE Spec2Model ----
(***************************************************************************)
(* Memory-MCP storage engine: BaseDatabaseService over a PostgreSQL pool   *)
(* (one connection per operation) or over PGlite (one embedded connection  *)
(* shared by every operation).                                             *)
(*                                                                         *)
(* Tables are sets of rows.  A session (connection) carries a transaction  *)
(* status and the uncommitted changes of its open transaction.  Numbers    *)
(* that the code takes as optional JS values are sequences: <<>> is        *)
(* undefined, <<v>> is the value v.  Similarity scores and thresholds are  *)
(* in hundredths (70 is 0.7).  An embedding is a record [dim, x]: a        *)
(* number[] of length dim whose first two elements are x[1], x[2] and      *)
(* whose other elements are 0.                                             *)
(*                                                                         *)
(* MemoryMCPServer sits on top: a tool call is validated, then embedded    *)
(* by the configured provider, then handed to the storage engine; the      *)
(* request handler turns every thrown error into one isError response.     *)
(* Tool arguments are JS values, records tagged by their type.             *)
(***************************************************************************)
EXTENDS Integers, Sequences, FiniteSets, TLC

VARIABLES backend, memories, embeddings, tx, pend, nextId, calls,
          stores, deleted, res, srv, startup, batch, clients, stats,
          schema

vars == <<backend, memories, embeddings, tx, pend, nextId, calls,
          stores, deleted, res, srv, startup, batch, clients,
          stats, schema>>

\* the state of the process around the storage engine and the requests
proc == <<startup, batch, clients, stats, schema>>

-----------------------------------------------------------------------------
(* Bounds *)

MaxCalls == 2

MaxId == 2

PageRows == 51

MaxTexts == 3

-----------------------------------------------------------------------------
(* Program constants *)

OPENAI == "openai"

OLLAMA == "ollama"

EmbeddingProviderType == {OPENAI, OLLAMA}

OpenaiDim == 1536

OllamaDim == 768

MinImportance == 1

MaxImportance == 5

DefaultImportance == 1

DefaultThreshold == 70

DefaultLimit == 10

DocumentedListLimit == 50

DocumentedListOffset == 0

Float4Precision == 16777216

TableDim(p) == IF p = OPENAI THEN OpenaiDim ELSE OllamaDim

Calls == 1..MaxCalls

Sessions == 0..MaxCalls

Ids == 1..MaxId

-----------------------------------------------------------------------------
(* JavaScript and SQL value helpers *)

\* a || d on an optional number: undefined and 0 are falsy
OrDefault(o, d) == IF o = <<>> THEN d ELSE IF o[1] = 0 THEN d ELSE o[1]

\* an optional number is <<>>, <<n>> for the integer n, or <<n, 5>> for
\* n + 0.5; IntegerParam: the text of the number is input of type INTEGER
IntegerParam(o) == Len(o) <= 1

\* a || [] on an optional tag list
OrEmpty(o) == IF o = <<>> THEN {} ELSE o[1]

Abs(n) == IF n < 0 THEN 0 - n ELSE n

\* text -> float4: integers below 2^24 are exact, integers in [2^24, 2^25)
\* round to the nearest even integer, ties to the even significand
Float4(n) ==
  IF Abs(n) < Float4Precision THEN n
  ELSE IF n % 2 = 0 THEN n
  ELSE IF ((n - 1) \div 2) % 2 = 0 THEN n - 1 ELSE n + 1

\* `[${embedding.join(',')}]` read by the vector input function, and the
\* vector output text read back by JSON.parse
ToVector(e) == [dim |-> e.dim, x |-> <<Float4(e.x[1]), Float4(e.x[2])>>]

RECURSIVE Gcd(_, _)
Gcd(a, b) == IF b = 0 THEN a ELSE Gcd(b, a % b)

ISqrt(n) == CHOOSE r \in 0..n : r * r <= n /\ n < (r + 1) * (r + 1)

\* direction of a vector: cosine distance does not depend on the length
Reduce(x) ==
  LET g == Gcd(Abs(x[1]), Abs(x[2]))
  IN  IF g = 0 THEN x ELSE <<x[1] \div g, x[2] \div g>>

NaN == [nan |-> TRUE, v |-> 0]

Num(n) == [nan |-> FALSE, v |-> n]

\* 1 - (a <=> b): cosine similarity in hundredths, NaN when a norm is 0;
\* exact for vectors of integer norm, which all inputs below are
Similarity(a, b) ==
  LET u  == Reduce(a.x)
      w  == Reduce(b.x)
      nu == ISqrt(u[1] * u[1] + u[2] * u[2])
      nw == ISqrt(w[1] * w[1] + w[2] * w[2])
  IN  IF nu * nw = 0 THEN NaN
      ELSE Num((100 * (u[1] * w[1] + u[2] * w[2])) \div (nu * nw))

\* float8 >= : NaN is greater than every number and equal to NaN
PgGE(a, b) == a.nan \/ (~b.nan /\ a.v >= b.v)

PgEQ(a, b) == (a.nan /\ b.nan) \/ (~a.nan /\ ~b.nan /\ a.v = b.v)

-----------------------------------------------------------------------------
(* Storage engine: tables, sessions and statements *)

NoPend == [mem |-> {}, emb |-> [p \in EmbeddingProviderType |-> {}], del |-> {}]

SessionOf(c) == IF backend = "pglite" THEN 0 ELSE c

\* rows of memories that statements of session s see
VMem(s) == {m \in memories : m.id \notin pend[s].del} \cup pend[s].mem

\* rows of memory_embeddings_<p> that statements of session s see
VEmb(s, p) ==
  {e \in embeddings[p] : e.memory_id \notin pend[s].del} \cup pend[s].emb[p]

MemIds(s) == {m.id : m \in VMem(s)}

EmbIds(s, p) == {e.memory_id : e \in VEmb(s, p)}

\* the CHECK without AND importance_score <= 5
MemoryCheck_NoUpperBound(row) == row.importance_score >= MinImportance

\* importance_score CHECK (importance_score >= 1 AND importance_score <= 5)
MemoryCheck(row) ==
  row.importance_score >= MinImportance /\ row.importance_score <= MaxImportance

\* a vector column that takes any number of elements
EmbeddingCheck_AnyDimension(s, p, row) ==
  /\ row.memory_id \in MemIds(s)
  /\ row.memory_id \notin EmbIds(s, p)

\* VECTOR(n) NOT NULL, PRIMARY KEY, REFERENCES memories(id)
EmbeddingCheck(s, p, row) ==
  /\ row.embedding.dim = TableDim(p)
  /\ row.memory_id \in MemIds(s)
  /\ row.memory_id \notin EmbIds(s, p)

\* a failed statement aborts the open transaction of its session
Abort(s) == IF tx[s] = "active" THEN [tx EXCEPT ![s] = "failed"] ELSE tx

Null == [kind |-> "null"]

Error == [kind |-> "error"]

Found(r) == [kind |-> "row", row |-> r]

Rows(q) == [kind |-> "rows", rows |-> q]

NoArgs ==
  [input |-> [content |-> "", tags |-> <<>>, importanceScore |-> <<>>],
   embedding |-> [dim |-> 0, x |-> <<0, 0>>],
   embeddingModel |-> "", embeddingProvider |-> OPENAI]

IdleCall == [pc |-> "idle", args |-> NoArgs, memoryId |-> 0]

StoreOf(id) == CHOOSE r \in stores : r.id = id

\* no storeMemory call is in flight
Quiescent == \A c \in Calls : calls[c].pc = "idle"

StoredIds == {r.id : r \in stores}

SetStatus(id, st) ==
  {IF r.id = id THEN [r EXCEPT !.status = st] ELSE r : r \in stores}

\* a result row as the Memory the service returns
ToMemory(m) ==
  [id |-> m.id, content |-> m.content, tags |-> m.tags,
   createdAt |-> m.created_at, importanceScore |-> m.importance_score]

ToMemoryWithEmbedding(m, e, p) ==
  [id |-> m.id, content |-> m.content, tags |-> m.tags,
   createdAt |-> m.created_at, importanceScore |-> m.importance_score,
   embedding |-> e.embedding, embeddingModel |-> e.model,
   embeddingProvider |-> p]

-----------------------------------------------------------------------------
(* storeMemory: one step per awaited statement *)

\* const client = await this.getClient()
StoreMemory_GetClient(c, a) ==
  /\ calls[c].pc = "idle"
  /\ nextId + Cardinality({d \in Calls : calls[d].pc \in {"begin", "insert_memory"}})
       <= MaxId
  /\ calls' = [calls EXCEPT ![c] = [pc |-> "begin", args |-> a, memoryId |-> 0]]
  /\ UNCHANGED <<backend, memories, embeddings, tx, pend, nextId, stores,
                 deleted, res>>

\* await client.query('BEGIN')
StoreMemory_Begin(c) ==
  LET s == SessionOf(c) IN
  /\ calls[c].pc = "begin"
  /\ IF tx[s] = "failed"
       THEN /\ calls' = [calls EXCEPT ![c].pc = "rollback"]
            /\ UNCHANGED tx
       ELSE /\ tx' = [tx EXCEPT ![s] = "active"]
            /\ calls' = [calls EXCEPT ![c].pc = "insert_memory"]
  /\ UNCHANGED <<backend, memories, embeddings, pend, nextId, stores,
                 deleted, res>>

\* memoryValues of storeMemory with the id the sequence assigns;
\* created_at DEFAULT NOW(): the clock of the engine advances between two
\* inserts, the time of the n-th insert is n
MemoryRowOf(input, id) ==
  [id |-> id,
   content |-> input.content,
   created_at |-> id,
   tags |-> OrEmpty(input.tags),
   importance_score |-> OrDefault(input.importanceScore, DefaultImportance)]

\* INSERT INTO memories ... RETURNING
StoreMemory_InsertMemory(c) ==
  LET s   == SessionOf(c)
      a   == calls[c].args
      row == MemoryRowOf(a.input, nextId)
  IN
  /\ calls[c].pc = "insert_memory"
  /\ IF tx[s] = "failed"
       THEN /\ calls' = [calls EXCEPT ![c].pc = "rollback"]
            /\ UNCHANGED <<memories, pend, tx, nextId, stores>>
       ELSE IF ~IntegerParam(a.input.importanceScore)
       THEN /\ calls' = [calls EXCEPT ![c].pc = "rollback"]
            /\ tx' = Abort(s)
            /\ UNCHANGED <<memories, pend, nextId, stores>>
       ELSE IF ~MemoryCheck(row)
       THEN /\ calls' = [calls EXCEPT ![c].pc = "rollback"]
            /\ tx' = Abort(s)
            /\ nextId' = nextId + 1
            /\ UNCHANGED <<memories, pend, stores>>
       ELSE /\ calls' = [calls EXCEPT ![c].pc = "insert_embedding",
                                      ![c].memoryId = row.id]
            /\ nextId' = nextId + 1
            /\ IF tx[s] = "idle"
                 THEN memories' = memories \cup {row} /\ UNCHANGED pend
                 ELSE pend' = [pend EXCEPT ![s].mem = @ \cup {row}]
                      /\ UNCHANGED memories
            /\ stores' = stores \cup
                 {[id |-> row.id, memory |-> ToMemory(row),
                   embedding |-> a.embedding,
                   embeddingModel |-> a.embeddingModel,
                   embeddingProvider |-> a.embeddingProvider,
                   status |-> "open"]}
            /\ UNCHANGED tx
  /\ UNCHANGED <<backend, embeddings, deleted, res>>

\* INSERT INTO memory_embeddings_<provider> (memory_id, embedding, model)
StoreMemory_InsertEmbedding(c) ==
  LET s   == SessionOf(c)
      a   == calls[c].args
      p   == a.embeddingProvider
      row == [memory_id |-> calls[c].memoryId,
              embedding |-> ToVector(a.embedding),
              model |-> a.embeddingModel]
  IN
  /\ calls[c].pc = "insert_embedding"
  /\ IF tx[s] = "failed"
       THEN /\ calls' = [calls EXCEPT ![c].pc = "rollback"]
            /\ UNCHANGED <<embeddings, pend, tx>>
       ELSE IF ~EmbeddingCheck(s, p, row)
       THEN /\ calls' = [calls EXCEPT ![c].pc = "rollback"]
            /\ tx' = Abort(s)
            /\ UNCHANGED <<embeddings, pend>>
       ELSE /\ calls' = [calls EXCEPT ![c].pc = "commit"]
            /\ IF tx[s] = "idle"
                 THEN embeddings' = [embeddings EXCEPT ![p] = @ \cup {row}]
                      /\ UNCHANGED pend
                 ELSE pend' = [pend EXCEPT ![s].emb[p] = @ \cup {row}]
                      /\ UNCHANGED embeddings
            /\ UNCHANGED tx
  /\ UNCHANGED <<backend, memories, nextId, stores, deleted, res>>

\* await client.query('COMMIT'); return {...}; finally releaseClient
\* COMMIT of an aborted transaction rolls back and reports no error
StoreMemory_Commit(c) ==
  LET s == SessionOf(c) IN
  /\ calls[c].pc = "commit"
  /\ IF tx[s] = "active"
       THEN /\ memories' = VMem(s)
            /\ embeddings' = [p \in EmbeddingProviderType |-> VEmb(s, p)]
       ELSE UNCHANGED <<memories, embeddings>>
  /\ tx' = [tx EXCEPT ![s] = "idle"]
  /\ pend' = [pend EXCEPT ![s] = NoPend]
  /\ stores' = SetStatus(calls[c].memoryId, "ok")
  /\ calls' = [calls EXCEPT ![c] = IdleCall]
  /\ UNCHANGED <<backend, nextId, deleted, res>>

\* catch: await client.query('ROLLBACK'); throw error; finally releaseClient
StoreMemory_Rollback(c) ==
  LET s == SessionOf(c) IN
  /\ calls[c].pc = "rollback"
  /\ tx' = [tx EXCEPT ![s] = "idle"]
  /\ pend' = [pend EXCEPT ![s] = NoPend]
  /\ stores' = IF calls[c].memoryId \in StoredIds
                 THEN SetStatus(calls[c].memoryId, "failed") ELSE stores
  /\ calls' = [calls EXCEPT ![c] = IdleCall]
  /\ UNCHANGED <<backend, memories, embeddings, nextId, deleted, res>>

-----------------------------------------------------------------------------
(* Single-statement operations.  Each acquires a client, runs one query    *)
(* and releases the client: a pooled PostgreSQL client is a connection     *)
(* with no open transaction, the PGlite client is the shared session 0.    *)

ClientSession == 0

\* FROM memories m JOIN memory_embeddings_<p> e ON m.id = e.memory_id
Joined(s, p) ==
  {j \in VMem(s) \X VEmb(s, p) : j[1].id = j[2].memory_id}

QueryMemoryById(id) ==
  LET s == ClientSession IN
  IF tx[s] = "failed" THEN Error
  ELSE IF id \in MemIds(s)
  THEN Found(ToMemory(CHOOSE m \in VMem(s) : m.id = id))
  ELSE Null

getMemoryById(id) ==
  /\ res' = [op |-> "getMemoryById", arg |-> <<id>>, val |-> QueryMemoryById(id)]
  /\ UNCHANGED <<backend, memories, embeddings, tx, pend, nextId, calls,
                 stores, deleted>>

QueryMemoryWithEmbeddingById(id, p) ==
  LET s  == ClientSession
      js == {j \in Joined(s, p) : j[1].id = id}
  IN
  IF tx[s] = "failed" THEN Error
  ELSE IF js = {} THEN Null
  ELSE LET j == CHOOSE k \in js : TRUE
       IN  Found(ToMemoryWithEmbedding(j[1], j[2], p))

getMemoryWithEmbeddingById(id, p) ==
  /\ res' = [op |-> "getMemoryWithEmbeddingById", arg |-> <<id, p>>,
             val |-> QueryMemoryWithEmbeddingById(id, p)]
  /\ UNCHANGED <<backend, memories, embeddings, tx, pend, nextId, calls,
                 stores, deleted>>

\* DELETE FROM memories WHERE id = $1, with ON DELETE CASCADE
deleteMemory(id) ==
  LET s     == ClientSession
      found == id \in MemIds(s)
  IN
  /\ IF tx[s] = "failed"
       THEN /\ res' = [op |-> "deleteMemory", arg |-> <<id>>, val |-> Error]
            /\ UNCHANGED <<memories, embeddings, pend, deleted>>
       ELSE /\ res' = [op |-> "deleteMemory", arg |-> <<id>>,
                       val |-> [kind |-> "bool", b |-> found]]
            /\ deleted' = IF found THEN [deleted EXCEPT ![id] = @ + 1]
                          ELSE deleted
            /\ IF tx[s] = "idle"
                 THEN /\ memories' = {m \in memories : m.id # id}
                      /\ embeddings' =
                           [p \in EmbeddingProviderType |->
                              {e \in embeddings[p] : e.memory_id # id}]
                      /\ UNCHANGED pend
                 ELSE /\ pend' = [pend EXCEPT ![s] =
                           [mem |-> {m \in @.mem : m.id # id},
                            emb |-> [p \in EmbeddingProviderType |->
                                       {e \in @.emb[p] : e.memory_id # id}],
                            del |-> IF found THEN @.del \cup {id} ELSE @.del]]
                      /\ UNCHANGED <<memories, embeddings>>
  /\ UNCHANGED <<backend, tx, nextId, calls, stores>>

-----------------------------------------------------------------------------
(* searchMemories *)

\* input.embeddingProvider || embeddingProvider
OrProvider(o, d) == IF o = <<>> THEN d ELSE o[1]

Min(a, b) == IF a <= b THEN a ELSE b

\* the WHERE clause without AND e.model = $3
SearchMatches_NoModelFilter(input, queryEmbedding, searchProvider) ==
  LET s   == ClientSession
      q   == ToVector(queryEmbedding)
      thr == Num(OrDefault(input.similarityThreshold, DefaultThreshold))
  IN
  {j \in Joined(s, searchProvider) :
     /\ PgGE(Similarity(j[2].embedding, q), thr)
     /\ (input.tags # <<>> /\ OrEmpty(input.tags) # {}
           => j[1].tags \cap input.tags[1] # {})}

\* WHERE 1 - (e.embedding <=> $1::vector) >= $2 [AND e.model = $3]
\*       [AND m.tags && $4]
SearchMatches(input, queryEmbedding, searchProvider) ==
  LET s   == ClientSession
      q   == ToVector(queryEmbedding)
      thr == Num(OrDefault(input.similarityThreshold, DefaultThreshold))
  IN
  {j \in Joined(s, searchProvider) :
     /\ PgGE(Similarity(j[2].embedding, q), thr)
     /\ (input.embeddingModel # <<>> /\ input.embeddingModel # <<"">>
           => j[2].model = input.embeddingModel[1])
     /\ (input.tags # <<>> /\ OrEmpty(input.tags) # {}
           => j[1].tags \cap input.tags[1] # {})}

\* ORDER BY similarity_score DESC alone
SearchOrder_NoTieBreak(a, b) == PgGE(a.similarityScore, b.similarityScore)

\* ORDER BY similarity_score DESC, m.importance_score DESC
SearchOrder(a, b) ==
  /\ PgGE(a.similarityScore, b.similarityScore)
  /\ (PgEQ(a.similarityScore, b.similarityScore)
        => a.memory.importanceScore >= b.memory.importanceScore)

\* every sequence of the rows of S that the ORDER BY allows
Orderings(S) ==
  {q \in [1..Cardinality(S) -> S] :
     /\ \A i, j \in 1..Cardinality(S) : i # j => q[i] # q[j]
     /\ \A i, j \in 1..Cardinality(S) : i < j => SearchOrder(q[i], q[j])}

\* result.rows.map(...)
SearchRows(input, queryEmbedding, searchProvider) ==
  LET q == ToVector(queryEmbedding) IN
  {[memory |-> ToMemoryWithEmbedding(j[1], j[2], searchProvider),
    similarityScore |-> Similarity(j[2].embedding, q)] :
     j \in SearchMatches(input, queryEmbedding, searchProvider)}

\* the results searchMemories may return: Error when the query fails
SearchResults(input, queryEmbedding, embeddingProvider) ==
  LET s     == ClientSession
      p     == OrProvider(input.embeddingProvider, embeddingProvider)
      limit == OrDefault(input.limit, DefaultLimit)
  IN
  IF \/ tx[s] = "failed"
     \/ limit < 0
     \/ (Joined(s, p) # {} /\ queryEmbedding.dim # TableDim(p))
  THEN {Error}
  ELSE {Rows(SubSeq(q, 1, Min(limit, Len(q)))) :
          q \in Orderings(SearchRows(input, queryEmbedding, p))}

searchMemories(input, queryEmbedding, embeddingProvider) ==
  /\ \E r \in SearchResults(input, queryEmbedding, embeddingProvider) :
       res' = [op |-> "searchMemories",
               arg |-> <<input, queryEmbedding, embeddingProvider>>,
               val |-> r]
  /\ UNCHANGED <<backend, memories, embeddings, tx, pend, nextId, calls,
                 stores, deleted>>

-----------------------------------------------------------------------------
(* listMemories, listTags, getStats *)

\* if (x) on an optional number: undefined and 0 are falsy
Truthy(o) == o # <<>> /\ o[1] # 0

\* a date string of the caller: an ISO date of time t, the empty string, or
\* a string that is no date
IsoDate(t) == [kind |-> "iso", t |-> t]

EmptyDate == [kind |-> "empty", t |-> 0]

BadDate == [kind |-> "invalid", t |-> 0]

\* if (input.startDate) on an optional string: undefined and '' are falsy
DateGiven(o) == o # <<>> /\ o[1].kind # "empty"

\* the WHERE clause without AND importance_score >= $n
ListMatches_NoImportance(input) ==
  LET s == ClientSession IN
  {m \in VMem(s) :
     /\ (input.tags # <<>> /\ OrEmpty(input.tags) # {}
           => m.tags \cap input.tags[1] # {})
     /\ (DateGiven(input.startDate) => m.created_at >= input.startDate[1].t)
     /\ (DateGiven(input.endDate) => m.created_at <= input.endDate[1].t)
     /\ (input.embeddingProvider # <<>>
           => m.id \in EmbIds(s, input.embeddingProvider[1]))}

\* WHERE 1=1 [AND tags && $n] [AND importance_score >= $n]
\*   [AND created_at >= $n] [AND created_at <= $n] [AND EXISTS (...)]
ListMatches(input) ==
  LET s == ClientSession IN
  {m \in VMem(s) :
     /\ (input.tags # <<>> /\ OrEmpty(input.tags) # {}
           => m.tags \cap input.tags[1] # {})
     /\ (Truthy(input.minImportance)
           => m.importance_score >= input.minImportance[1])
     /\ (DateGiven(input.startDate) => m.created_at >= input.startDate[1].t)
     /\ (DateGiven(input.endDate) => m.created_at <= input.endDate[1].t)
     /\ (input.embeddingProvider # <<>>
           => m.id \in EmbIds(s, input.embeddingProvider[1]))}

\* ORDER BY created_at DESC: every sequence of the rows of S the clause allows
RECURSIVE ListOrderings(_)
ListOrderings(S) ==
  IF S = {} THEN {<<>>}
  ELSE LET newest == {m \in S : \A n \in S : m.created_at >= n.created_at}
       IN  UNION {{<<m>> \o q : q \in ListOrderings(S \ {m})} : m \in newest}

\* the page of q with a LIMIT of the documented size when none is supplied
ListPage_ImplicitPage(input, q) ==
  LET off == IF Truthy(input.offset) THEN input.offset[1] ELSE 0
      end == IF Truthy(input.limit) THEN Min(off + input.limit[1], Len(q))
             ELSE Min(off + DocumentedListLimit, Len(q))
  IN  SubSeq(q, off + 1, end)

\* [LIMIT $n] [OFFSET $n] applied to the ordered rows q
ListPage(input, q) ==
  LET off == IF Truthy(input.offset) THEN input.offset[1] ELSE 0
      end == IF Truthy(input.limit) THEN Min(off + input.limit[1], Len(q))
             ELSE Len(q)
  IN  SubSeq(q, off + 1, end)

\* result.rows.map(...)
ListToMemories(q) == [i \in 1..Len(q) |-> ToMemory(q[i])]

\* the results listMemories may return: Error when the query fails (aborted
\* transaction, negative LIMIT or OFFSET, a date string that is no date)
ListResults(input) ==
  IF \/ tx[ClientSession] = "failed"
     \/ (Truthy(input.limit) /\ input.limit[1] < 0)
     \/ (Truthy(input.offset) /\ input.offset[1] < 0)
     \/ (DateGiven(input.startDate) /\ input.startDate[1].kind = "invalid")
     \/ (DateGiven(input.endDate) /\ input.endDate[1].kind = "invalid")
  THEN {Error}
  ELSE {Rows(ListToMemories(ListPage(input, q))) :
          q \in ListOrderings(ListMatches(input))}

listMemories(input) ==
  /\ \E r \in ListResults(input) :
       res' = [op |-> "listMemories", arg |-> <<input>>, val |-> r]
  /\ UNCHANGED <<backend, memories, embeddings, tx, pend, nextId, calls,
                 stores, deleted>>

\* the order of the tags under the collation of the database
TagOrder == <<"api", "react", "style">>

TagRank(t) == CHOOSE i \in 1..Len(TagOrder) : TagOrder[i] = t

\* SELECT DISTINCT unnest(tags) as tag FROM memories ... ORDER BY tag
DistinctTags == UNION {m.tags : m \in VMem(ClientSession)}

SortTags_Descending(S) ==
  CHOOSE q \in [1..Cardinality(S) -> S] :
    \A i, j \in 1..Cardinality(S) : i < j => TagRank(q[i]) > TagRank(q[j])

SortTags(S) ==
  CHOOSE q \in [1..Cardinality(S) -> S] :
    \A i, j \in 1..Cardinality(S) : i < j => TagRank(q[i]) < TagRank(q[j])

QueryTags == IF tx[ClientSession] = "failed" THEN Error ELSE Rows(SortTags(DistinctTags))

listTags ==
  /\ res' = [op |-> "listTags", arg |-> <<>>, val |-> QueryTags]
  /\ UNCHANGED <<backend, memories, embeddings, tx, pend, nextId, calls,
                 stores, deleted>>

RECURSIVE SumImportance(_)
SumImportance(S) ==
  IF S = {} THEN 0
  ELSE LET m == CHOOSE n \in S : TRUE
       IN  m.importance_score + SumImportance(S \ {m})

\* parseFloat(AVG(importance_score)) || 0 as the fraction num / den: AVG of
\* no rows is NULL, parseFloat(null) is NaN, and NaN || 0 is 0
AvgImportance(S) ==
  IF S = {} THEN [num |-> 0, den |-> 1]
  ELSE [num |-> SumImportance(S), den |-> Cardinality(S)]

\* getStats with both provider counts taken from the openai table
QueryStats_OneTable ==
  LET s == ClientSession IN
  IF tx[s] = "failed" THEN Error
  ELSE [kind |-> "stats",
        totalMemories |-> Cardinality(VMem(s)),
        avgImportance |-> AvgImportance(VMem(s)),
        uniqueTags |-> SortTags(DistinctTags),
        openaiEmbeddings |-> Cardinality(VEmb(s, OPENAI)),
        ollamaEmbeddings |-> Cardinality(VEmb(s, OPENAI))]

\* the four queries of getStats, run while no other statement runs
QueryStats ==
  LET s == ClientSession IN
  IF tx[s] = "failed" THEN Error
  ELSE [kind |-> "stats",
        totalMemories |-> Cardinality(VMem(s)),
        avgImportance |-> AvgImportance(VMem(s)),
        uniqueTags |-> SortTags(DistinctTags),
        openaiEmbeddings |-> Cardinality(VEmb(s, OPENAI)),
        ollamaEmbeddings |-> Cardinality(VEmb(s, OLLAMA))]

getStats ==
  /\ res' = [op |-> "getStats", arg |-> <<>>, val |-> QueryStats]
  /\ UNCHANGED <<backend, memories, embeddings, tx, pend, nextId, calls,
                 stores, deleted>>

\* getStats query by query: Promise.all issues the four queries on the one
\* client, which runs them in that order, each a statement of its own.  On
\* the pool a statement of another connection can run between two of them;
\* PGlite runs a query when the queries queued before it are done, so the
\* four run with no other statement between them (getStats above).
NoStats ==
  [pc |-> 0, counted |-> {}, totalMemories |-> 0,
   avgImportance |-> AvgImportance({}), uniqueTags |-> <<>>,
   openaiEmbeddings |-> 0, ollamaEmbeddings |-> 0]

\* SELECT COUNT(*) as total_memories, AVG(importance_score) ... FROM memories
getStats_StatsQuery ==
  /\ backend = "postgresql"
  /\ stats.pc = 0
  /\ stats' = [NoStats EXCEPT
                 !.pc = 1,
                 !.counted = VMem(ClientSession),
                 !.totalMemories = Cardinality(VMem(ClientSession)),
                 !.avgImportance = AvgImportance(VMem(ClientSession))]
  /\ UNCHANGED <<backend, memories, embeddings, tx, pend, nextId, calls,
                 stores, deleted, res>>

\* SELECT DISTINCT unnest(tags) as tag FROM memories ORDER BY tag
getStats_TagsQuery ==
  /\ stats.pc = 1
  /\ stats' = [stats EXCEPT !.pc = 2, !.uniqueTags = SortTags(DistinctTags)]
  /\ UNCHANGED <<backend, memories, embeddings, tx, pend, nextId, calls,
                 stores, deleted, res>>

\* SELECT COUNT(*) as count FROM memory_embeddings_openai
getStats_OpenaiCountQuery ==
  /\ stats.pc = 2
  /\ stats' = [stats EXCEPT
                 !.pc = 3,
                 !.openaiEmbeddings = Cardinality(VEmb(ClientSession, OPENAI))]
  /\ UNCHANGED <<backend, memories, embeddings, tx, pend, nextId, calls,
                 stores, deleted, res>>

\* SELECT COUNT(*) as count FROM memory_embeddings_ollama
getStats_OllamaCountQuery ==
  /\ stats.pc = 3
  /\ stats' = [stats EXCEPT
                 !.pc = 4,
                 !.ollamaEmbeddings = Cardinality(VEmb(ClientSession, OLLAMA))]
  /\ UNCHANGED <<backend, memories, embeddings, tx, pend, nextId, calls,
                 stores, deleted, res>>

\* return { totalMemories, avgImportance, uniqueTags, openaiEmbeddings,
\* ollamaEmbeddings }
getStats_Return ==
  /\ stats.pc = 4
  /\ res' = [op |-> "getStats", arg |-> <<>>,
             val |-> [kind |-> "stats",
                      totalMemories |-> stats.totalMemories,
                      avgImportance |-> stats.avgImportance,
                      uniqueTags |-> stats.uniqueTags,
                      openaiEmbeddings |-> stats.openaiEmbeddings,
                      ollamaEmbeddings |-> stats.ollamaEmbeddings]]
  /\ stats' = [NoStats EXCEPT !.counted = stats.counted]
  /\ UNCHANGED <<backend, memories, embeddings, tx, pend, nextId, calls,
                 stores, deleted>>

-----------------------------------------------------------------------------
(* initializeSchema.  A script is a sequence of tokens: ";", the dollar    *)
(* quote "$$", white space "\n", and SQL text that holds none of these (a  *)
(* comment line counts as white space of the text that follows it).        *)

INITIALIZATION_SQL ==
  <<"\n", "CREATE EXTENSION IF NOT EXISTS vector", ";",
    "\n", "CREATE TABLE IF NOT EXISTS memories", ";",
    "\n", "CREATE TABLE IF NOT EXISTS memory_embeddings_openai", ";",
    "\n", "CREATE TABLE IF NOT EXISTS memory_embeddings_ollama", ";",
    "\n", "CREATE INDEX IF NOT EXISTS idx_memories_tags", ";",
    "\n", "CREATE INDEX IF NOT EXISTS idx_memories_created_at", ";",
    "\n", "CREATE INDEX IF NOT EXISTS idx_memories_importance", ";",
    "\n", "CREATE INDEX IF NOT EXISTS idx_openai_embedding", ";",
    "\n", "CREATE INDEX IF NOT EXISTS idx_openai_model", ";",
    "\n", "CREATE INDEX IF NOT EXISTS idx_ollama_embedding", ";",
    "\n", "CREATE INDEX IF NOT EXISTS idx_ollama_model", ";",
    "\n", "CREATE OR REPLACE FUNCTION update_updated_at_column() RETURNS TRIGGER AS",
    "$$", "\n", "BEGIN", "\n", "NEW.updated_at = NOW()", ";",
    "\n", "RETURN NEW", ";", "\n", "END", ";", "\n", "$$",
    "LANGUAGE 'plpgsql'", ";",
    "\n", "CREATE OR REPLACE TRIGGER update_memories_updated_at", ";",
    "\n">>

\* String.prototype.split(';'): the pieces between the separators, the
\* empty ones included
RECURSIVE SplitFrom(_, _)
SplitFrom(script, piece) ==
  IF script = <<>> THEN <<piece>>
  ELSE IF Head(script) = ";" THEN <<piece>> \o SplitFrom(Tail(script), <<>>)
  ELSE SplitFrom(Tail(script), Append(piece, Head(script)))

Split(script) == SplitFrom(script, <<>>)

\* String.prototype.trim()
RECURSIVE TrimStart(_)
TrimStart(text) ==
  IF text # <<>> /\ Head(text) = "\n" THEN TrimStart(Tail(text)) ELSE text

RECURSIVE TrimEnd(_)
TrimEnd(text) ==
  IF text # <<>> /\ text[Len(text)] = "\n"
  THEN TrimEnd(SubSeq(text, 1, Len(text) - 1))
  ELSE text

Trim(text) == TrimEnd(TrimStart(text))

\* if (s.trim()): the empty string is falsy
NonBlank(text) == Trim(text) # <<>>

\* INITIALIZATION_SQL.split(';').filter((s) => s.trim())
SplitStatements(script) == SelectSeq(Split(script), NonBlank)

\* the statements the SQL lexer finds: a ";" between two dollar quotes is
\* part of the quoted string and ends no statement
RECURSIVE LexFrom(_, _, _)
LexFrom(script, text, quoted) ==
  IF script = <<>> THEN <<text>>
  ELSE IF Head(script) = "$$"
    THEN LexFrom(Tail(script), Append(text, "$$"), ~quoted)
  ELSE IF Head(script) = ";" /\ ~quoted
    THEN <<text>> \o LexFrom(Tail(script), <<>>, FALSE)
  ELSE LexFrom(Tail(script), Append(text, Head(script)), quoted)

Lex(script) == LexFrom(script, <<>>, FALSE)

TrimAll(texts) == [i \in 1..Len(texts) |-> Trim(texts[i])]

\* the statements of a script, as exec runs them
ScriptStatements(script) == TrimAll(SelectSeq(Lex(script), NonBlank))

\* a text with a dollar quote that is not closed is a syntax error
DollarQuotes(text) == Cardinality({i \in 1..Len(text) : text[i] = "$$"})

Terminated(text) == DollarQuotes(text) % 2 = 0

NoSchema ==
  [script |-> <<>>, pc |-> "done", statements |-> <<>>, submitted |-> <<>>,
   applied |-> <<>>]

NewSchema(script) == [NoSchema EXCEPT !.script = script, !.pc = "start"]

\* if (client.exec) await client.exec(INITIALIZATION_SQL): the adapter of
\* PGlite has exec
initializeSchema_Exec ==
  /\ schema.pc = "start"
  /\ backend = "pglite"
  /\ schema' = [schema EXCEPT
                  !.pc = "done",
                  !.submitted = <<schema.script>>,
                  !.applied = ScriptStatements(schema.script)]
  /\ UNCHANGED <<backend, memories, embeddings, tx, pend, nextId, calls,
                 stores, deleted, res>>

\* else: const statements = INITIALIZATION_SQL.split(';').filter(...); the
\* adapter of the pool has no exec
initializeSchema_Split ==
  /\ schema.pc = "start"
  /\ backend = "postgresql"
  /\ schema' = [schema EXCEPT
                  !.pc = "loop",
                  !.statements = SplitStatements(schema.script)]
  /\ UNCHANGED <<backend, memories, embeddings, tx, pend, nextId, calls,
                 stores, deleted, res>>

\* for (const statement of statements) if (statement.trim())
\*   await client.query(statement): a text that is no statement is rejected
\* and the error leaves the loop
initializeSchema_Query ==
  /\ schema.pc = "loop"
  /\ schema.statements # <<>>
  /\ LET statement == Head(schema.statements) IN
       schema' = [schema EXCEPT
                    !.statements = Tail(schema.statements),
                    !.submitted = IF NonBlank(statement)
                                  THEN Append(schema.submitted, statement)
                                  ELSE schema.submitted,
                    !.applied = IF NonBlank(statement) /\ Terminated(statement)
                                THEN Append(schema.applied, Trim(statement))
                                ELSE schema.applied,
                    !.pc = IF NonBlank(statement) /\ ~Terminated(statement)
                           THEN "failed" ELSE "loop"]
  /\ UNCHANGED <<backend, memories, embeddings, tx, pend, nextId, calls,
                 stores, deleted, res>>

\* the loop is over
initializeSchema_Return ==
  /\ schema.pc = "loop"
  /\ schema.statements = <<>>
  /\ schema' = [schema EXCEPT !.pc = "done"]
  /\ UNCHANGED <<backend, memories, embeddings, tx, pend, nextId, calls,
                 stores, deleted, res>>

-----------------------------------------------------------------------------
(* Inputs *)

NoInput == [content |-> "note", tags |-> <<>>, importanceScore |-> <<>>]

Vec(d, a, b) == [dim |-> d, x |-> <<a, b>>]

StoreArgsOf(input, embedding, model, provider) ==
  [input |-> input, embedding |-> embedding, embeddingModel |-> model,
   embeddingProvider |-> provider]

\* calls of the concurrent specification: a store that succeeds, a store
\* whose vector does not fit the provider table, a store of a vector with
\* an element that single precision cannot hold
StoreArgs ==
  {StoreArgsOf(NoInput, Vec(OpenaiDim, 1, 0), "text-embedding-3-small", OPENAI),
   StoreArgsOf(NoInput, Vec(OllamaDim, 1, 0), "text-embedding-3-small", OPENAI),
   StoreArgsOf(NoInput, Vec(OllamaDim, Float4Precision + 1, 0),
               "nomic-embed-text", OLLAMA)}

SearchInputOf(limit, threshold, tags, provider, model) ==
  [limit |-> limit, similarityThreshold |-> threshold, tags |-> tags,
   embeddingProvider |-> provider, embeddingModel |-> model]

SearchArgs ==
  {<<SearchInputOf(<<>>, <<>>, <<>>, <<>>, <<>>), Vec(OpenaiDim, 1, 0), OPENAI>>}

-----------------------------------------------------------------------------
(* MemoryMCPServer: tool arguments as JavaScript values, the validators,   *)
(* and the handlers of the CallTool request.  srv is the request being     *)
(* handled: its position, the calls it made to the embedding provider and  *)
(* to the database service, and its response.                              *)

Undefined == [t |-> "undefined"]

Str(s) == [t |-> "string", s |-> s]

NumV(n) == [t |-> "number", n |-> n]

\* the number n + 0.5
NumHalf(n) == [t |-> "number", n |-> n, half |-> TRUE]

IsHalf(v) == "half" \in DOMAIN v

Arr(q) == [t |-> "array", a |-> q]

Obj(f) == [t |-> "object", f |-> f]

\* input.name of an argument object: undefined when args has no such field
Field(a, name) ==
  IF a.t = "object" /\ name \in DOMAIN a.f THEN a.f[name] ELSE Undefined

isObject(a) == a.t \in {"object", "array"}

isString(v) == v.t = "string"

isNumber(v) == v.t = "number"

isOptionalString(v) == v.t = "undefined" \/ isString(v)

isOptionalNumber(v) == v.t = "undefined" \/ isNumber(v)

isStringArray(v) == v.t = "array" /\ \A i \in 1..Len(v.a) : isString(v.a[i])

isOptionalStringArray(v) == v.t = "undefined" \/ isStringArray(v)

isNumberInRange(v, min, max) ==
  /\ isNumber(v)
  /\ v.n >= min
  /\ IF IsHalf(v) THEN v.n < max ELSE v.n <= max

isOptionalNumberInRange(v, min, max) ==
  v.t = "undefined" \/ isNumberInRange(v, min, max)

isOptionalEnumValue(v) ==
  v.t = "undefined" \/ (isString(v) /\ v.s \in EmbeddingProviderType)

isValidStoreMemoryArgs(a) ==
  /\ isObject(a)
  /\ isString(Field(a, "content"))
  /\ isOptionalString(Field(a, "context"))
  /\ isOptionalStringArray(Field(a, "tags"))
  /\ isOptionalNumberInRange(Field(a, "importanceScore"),
                             MinImportance, MaxImportance)

isValidSearchMemoriesArgs(a) ==
  /\ isObject(a)
  /\ isString(Field(a, "query"))
  /\ isOptionalNumber(Field(a, "limit"))
  /\ isOptionalNumber(Field(a, "similarityThreshold"))
  /\ isOptionalStringArray(Field(a, "tags"))
  /\ isOptionalEnumValue(Field(a, "embeddingProvider"))
  /\ isOptionalString(Field(a, "embeddingModel"))

isValidListMemoriesArgs(a) ==
  /\ isObject(a)
  /\ isOptionalNumber(Field(a, "limit"))
  /\ isOptionalNumber(Field(a, "offset"))
  /\ isOptionalStringArray(Field(a, "tags"))
  /\ isOptionalNumber(Field(a, "minImportance"))
  /\ isOptionalString(Field(a, "startDate"))
  /\ isOptionalString(Field(a, "endDate"))
  /\ isOptionalEnumValue(Field(a, "embeddingProvider"))

isValidDeleteMemoryArgs(a) == isObject(a) /\ isNumber(Field(a, "memoryId"))

ValidatedTools == {"storeMemory", "searchMemories", "listMemories", "deleteMemory"}

Tools == ValidatedTools \cup {"listTags", "getMemoryStats"}

\* the validator the handler of the tool runs
ValidArgs(name, a) ==
  IF name = "storeMemory" THEN isValidStoreMemoryArgs(a)
  ELSE IF name = "searchMemories" THEN isValidSearchMemoriesArgs(a)
  ELSE IF name = "listMemories" THEN isValidListMemoriesArgs(a)
  ELSE IF name = "deleteMemory" THEN isValidDeleteMemoryArgs(a)
  ELSE TRUE

\* valid arguments as the optional values the database service reads
OptNumber(v) ==
  IF v.t = "undefined" THEN <<>>
  ELSE IF IsHalf(v) THEN <<v.n, 5>>
  ELSE <<v.n>>

OptString(v) == IF v.t = "undefined" THEN <<>> ELSE <<v.s>>

OptTags(v) ==
  IF v.t = "undefined" THEN <<>> ELSE <<{v.a[i].s : i \in 1..Len(v.a)}>>

\* $n::timestamptz of a date string: the n-th day is time n
ParseDate(s) ==
  IF s = "" THEN EmptyDate
  ELSE IF s = "2024-01-01" THEN IsoDate(1)
  ELSE IF s = "2024-01-02" THEN IsoDate(2)
  ELSE BadDate

OptDate(v) == IF v.t = "undefined" THEN <<>> ELSE <<ParseDate(v.s)>>

ToCreateInput(a) ==
  [content |-> Field(a, "content").s,
   tags |-> OptTags(Field(a, "tags")),
   importanceScore |-> OptNumber(Field(a, "importanceScore"))]

ToSearchInput(a) ==
  [limit |-> OptNumber(Field(a, "limit")),
   similarityThreshold |-> OptNumber(Field(a, "similarityThreshold")),
   tags |-> OptTags(Field(a, "tags")),
   embeddingProvider |-> OptString(Field(a, "embeddingProvider")),
   embeddingModel |-> OptString(Field(a, "embeddingModel"))]

ToListInput(a) ==
  [limit |-> OptNumber(Field(a, "limit")),
   offset |-> OptNumber(Field(a, "offset")),
   tags |-> OptTags(Field(a, "tags")),
   minImportance |-> OptNumber(Field(a, "minImportance")),
   startDate |-> OptDate(Field(a, "startDate")),
   endDate |-> OptDate(Field(a, "endDate")),
   embeddingProvider |-> OptString(Field(a, "embeddingProvider"))]

\* the embedding service of the server: EMBEDDING_PROVIDER and
\* EMBEDDING_MODEL unset
ConfiguredProvider == OLLAMA

ConfiguredModel == "nomic-embed-text"

NoResponse == [isError |-> FALSE, text |-> <<>>, result |-> Null]

\* return { content: [{ type: 'text', text: JSON.stringify(...) }] }
Success(v) == [isError |-> FALSE, text |-> <<"success">>, result |-> v]

\* catch (error): return { content: [{ text: `Error: ${error.message}` }],
\* isError: true }
Failure(message) ==
  [isError |-> TRUE, text |-> <<"Error: ", message>>, result |-> Null]

\* an error thrown in a handler: where it was raised and its message
Thrown(from, message) == [from |-> from, message |-> message]

NoError == Thrown("none", "")

InvalidParams(name) ==
  IF name = "storeMemory"
  THEN "MCP error -32602: Invalid storeMemory arguments"
  ELSE IF name = "searchMemories"
  THEN "MCP error -32602: Invalid searchMemories arguments"
  ELSE IF name = "listMemories"
  THEN "MCP error -32602: Invalid listMemories arguments"
  ELSE "MCP error -32602: Invalid deleteMemory arguments"

MethodNotFound == "MCP error -32601: Unknown tool"

ProviderError == "Ollama embedding error"

StorageError == "database error"

ServerIdle ==
  [pc |-> "idle", tool |-> "", args |-> Undefined, provider |-> 0,
   storage |-> 0, responses |-> 0, response |-> NoResponse,
   error |-> NoError, failed |-> FALSE]

\* a request of the tool name with arguments a arrives
Request(name, a) ==
  [pc |-> "idle", tool |-> name, args |-> a, provider |-> 0, storage |-> 0,
   responses |-> 0, response |-> NoResponse, error |-> NoError,
   failed |-> srv.failed]

\* the handler of request r returns the value v
Return(r, v) ==
  [r EXCEPT !.pc = "idle", !.responses = @ + 1, !.response = Success(v)]

\* the error e reaches the catch of the request handler
Catch(r, e) ==
  [r EXCEPT !.pc = "idle", !.error = e, !.responses = @ + 1,
            !.response = Failure(e.message), !.failed = TRUE]

\* the database call of request r produced val: a value, or a thrown error
Settle(r, val) ==
  IF val.kind = "error" THEN Catch(r, Thrown("storage", StorageError))
  ELSE Return(r, val)

\* the vectors the configured provider may answer with: of the dimension of
\* its table, or of another dimension
EmbeddingReplies == {Vec(OllamaDim, 1, 0), Vec(1024, 1, 0)}

\* a handler whose validator rejects the arguments: throw new McpError(
\* ErrorCode.InvalidParams, ...), caught by the request handler
handleInvalidArgs(name, a) ==
  /\ srv.pc = "idle"
  /\ name \in ValidatedTools
  /\ ~ValidArgs(name, a)
  /\ srv' = Catch(Request(name, a), Thrown("validation", InvalidParams(name)))
  /\ UNCHANGED <<backend, memories, embeddings, tx, pend, nextId, calls,
                 stores, deleted, res>>

\* default: throw new McpError(ErrorCode.MethodNotFound, ...)
handleUnknownTool(name, a) ==
  /\ srv.pc = "idle"
  /\ name \notin Tools
  /\ srv' = Catch(Request(name, a), Thrown("dispatch", MethodNotFound))
  /\ UNCHANGED <<backend, memories, embeddings, tx, pend, nextId, calls,
                 stores, deleted, res>>

\* the handlers calling generateEmbedding without validating the arguments
handleWithEmbedding_NoValidation(name, a) ==
  /\ srv.pc = "idle"
  /\ name \in {"storeMemory", "searchMemories"}
  /\ name = "storeMemory" => nextId <= MaxId
  /\ srv' = [Request(name, a) EXCEPT !.pc = "embedding", !.provider = 1]
  /\ UNCHANGED <<backend, memories, embeddings, tx, pend, nextId, calls,
                 stores, deleted, res>>

\* handleStoreMemory and handleSearchMemories up to
\* await this.embeddings.generateEmbedding(...)
handleWithEmbedding(name, a) ==
  /\ srv.pc = "idle"
  /\ name \in {"storeMemory", "searchMemories"}
  /\ ValidArgs(name, a)
  /\ name = "storeMemory" => nextId <= MaxId
  /\ srv' = [Request(name, a) EXCEPT !.pc = "embedding", !.provider = 1]
  /\ UNCHANGED <<backend, memories, embeddings, tx, pend, nextId, calls,
                 stores, deleted, res>>

\* generateEmbedding throws and the handler calls it again
generateEmbedding_Retries ==
  /\ srv.pc = "embedding"
  /\ srv.provider < 2
  /\ srv' = [srv EXCEPT !.provider = @ + 1,
                        !.error = Thrown("provider", ProviderError)]
  /\ UNCHANGED <<backend, memories, embeddings, tx, pend, nextId, calls,
                 stores, deleted, res>>

\* generateEmbedding throws: the handler rethrows, the request handler
\* answers
generateEmbedding_Throws ==
  /\ srv.pc = "embedding"
  /\ srv' = Catch(srv, Thrown("provider", ProviderError))
  /\ UNCHANGED <<backend, memories, embeddings, tx, pend, nextId, calls,
                 stores, deleted, res>>

\* generateEmbedding returns: await this.database.storeMemory(args,
\* embedding, getModel(), getProvider())
handleStoreMemory_Store(embedding) ==
  /\ srv.pc = "embedding"
  /\ srv.tool = "storeMemory"
  /\ StoreMemory_GetClient(1, StoreArgsOf(ToCreateInput(srv.args), embedding,
                                          ConfiguredModel, ConfiguredProvider))
  /\ srv' = [srv EXCEPT !.pc = "storing", !.storage = 1]

\* storeMemory returned the stored memory
handleStoreMemory_Return ==
  /\ srv.pc = "storing"
  /\ StoreMemory_Commit(1)
  /\ srv' = Return(srv, Found(StoreOf(calls[1].memoryId).memory))

\* storeMemory threw
handleStoreMemory_Throw ==
  /\ srv.pc = "storing"
  /\ StoreMemory_Rollback(1)
  /\ srv' = Catch(srv, Thrown("storage", StorageError))

\* generateEmbedding returns: await this.database.searchMemories(args,
\* queryEmbedding, getProvider())
handleSearchMemories_Search(queryEmbedding) ==
  /\ srv.pc = "embedding"
  /\ srv.tool = "searchMemories"
  /\ searchMemories(ToSearchInput(srv.args), queryEmbedding, ConfiguredProvider)
  /\ srv' = Settle([srv EXCEPT !.storage = 1], res'.val)

handleListMemories(a) ==
  /\ srv.pc = "idle"
  /\ isValidListMemoriesArgs(a)
  /\ listMemories(ToListInput(a))
  /\ srv' = Settle([Request("listMemories", a) EXCEPT !.storage = 1], res'.val)

handleDeleteMemory(a) ==
  /\ srv.pc = "idle"
  /\ isValidDeleteMemoryArgs(a)
  /\ deleteMemory(Field(a, "memoryId").n)
  /\ srv' = Settle([Request("deleteMemory", a) EXCEPT !.storage = 1], res'.val)

handleListTags(a) ==
  /\ srv.pc = "idle"
  /\ listTags
  /\ srv' = Settle([Request("listTags", a) EXCEPT !.storage = 1], res'.val)

handleGetMemoryStats(a) ==
  /\ srv.pc = "idle"
  /\ getStats
  /\ srv' = Settle([Request("getMemoryStats", a) EXCEPT !.storage = 1], res'.val)

-----------------------------------------------------------------------------
(* The client of an operation of BaseDatabaseService: getClient, the       *)
(* statements awaited inside try, the catch of storeMemory, and finally    *)
(* releaseClient.  A statement is answered, or fails with an error of the  *)
(* database (the connection stays usable), or fails because the            *)
(* connection is lost (every later statement on it fails, and the server   *)
(* ends its transaction).                                                  *)

\* the statements storeMemory awaits inside try, in order
StoreStatements == <<"BEGIN", "INSERT memories", "INSERT embedding", "COMMIT">>

\* the statement of an operation with a single query
QueryStatements == <<"QUERY">>

StatementsOf(op) == IF op = "storeMemory" THEN StoreStatements ELSE QueryStatements

NoClient ==
  [op |-> "none", pc |-> "idle", acquired |-> 0, released |-> 0,
   issued |-> <<>>, failed |-> <<>>, txOpen |-> FALSE, lost |-> FALSE,
   thrown |-> "", outcome |-> ""]

\* const client = await this.getClient(), by a caller whose operation
\* before, if any, has completed
Client_GetClient(c, op) ==
  /\ clients[c].pc \in {"idle", "done"}
  /\ clients' = [clients EXCEPT ![c] =
                   [NoClient EXCEPT !.op = op, !.pc = "try", !.acquired = 1]]
  /\ UNCHANGED <<backend, memories, embeddings, tx, pend, nextId, calls,
                 stores, deleted, res, srv, startup, batch,
                 stats, schema>>

\* the next statement of the try block
NextStatement(k) == StatementsOf(k.op)[Len(k.issued) + 1]

\* await client.query(...) inside try is answered; after the last one the
\* operation returns its value
Client_Query(c) ==
  LET k == clients[c] stmt == NextStatement(k) IN
  /\ k.pc = "try"
  /\ ~k.lost
  /\ clients' = [clients EXCEPT
       ![c].issued = Append(@, stmt),
       ![c].txOpen = IF stmt = "BEGIN" THEN TRUE
                     ELSE IF stmt = "COMMIT" THEN FALSE ELSE @,
       ![c].pc = IF Len(k.issued) + 1 = Len(StatementsOf(k.op))
                 THEN "finally" ELSE "try",
       ![c].outcome = IF Len(k.issued) + 1 = Len(StatementsOf(k.op))
                      THEN "returns" ELSE ""]
  /\ UNCHANGED <<backend, memories, embeddings, tx, pend, nextId, calls,
                 stores, deleted, res, srv, startup, batch,
                 stats, schema>>

\* await client.query(...) inside try rejects: storeMemory enters its
\* catch, the other operations have none
Client_QueryFails(c, lost) ==
  LET k == clients[c] stmt == NextStatement(k) IN
  /\ k.pc = "try"
  /\ k.lost => lost
  /\ clients' = [clients EXCEPT
       ![c].issued = Append(@, stmt),
       ![c].failed = Append(@, stmt),
       ![c].lost = lost,
       ![c].txOpen = IF lost THEN FALSE ELSE @,
       ![c].thrown = stmt,
       ![c].pc = IF k.op = "storeMemory" THEN "catch" ELSE "finally",
       ![c].outcome = IF k.op = "storeMemory" THEN "" ELSE "throws"]
  /\ UNCHANGED <<backend, memories, embeddings, tx, pend, nextId, calls,
                 stores, deleted, res, srv, startup, batch,
                 stats, schema>>

\* catch (error) { await client.query('ROLLBACK'); throw error; }
Client_Rollback(c) ==
  /\ clients[c].pc = "catch"
  /\ ~clients[c].lost
  /\ clients' = [clients EXCEPT
       ![c].issued = Append(@, "ROLLBACK"),
       ![c].txOpen = FALSE,
       ![c].pc = "finally",
       ![c].outcome = "throws"]
  /\ UNCHANGED <<backend, memories, embeddings, tx, pend, nextId, calls,
                 stores, deleted, res, srv, startup, batch,
                 stats, schema>>

\* the ROLLBACK of the catch rejects: its error leaves the catch
Client_RollbackFails(c) ==
  /\ clients[c].pc = "catch"
  /\ clients[c].lost
  /\ clients' = [clients EXCEPT
       ![c].issued = Append(@, "ROLLBACK"),
       ![c].failed = Append(@, "ROLLBACK"),
       ![c].thrown = "ROLLBACK",
       ![c].pc = "finally",
       ![c].outcome = "throws"]
  /\ UNCHANGED <<backend, memories, embeddings, tx, pend, nextId, calls,
                 stores, deleted, res, srv, startup, batch,
                 stats, schema>>

\* releaseClient only when the operation returns
Client_Release_OnReturn(c) ==
  /\ clients[c].pc = "finally"
  /\ clients' = [clients EXCEPT
       ![c].released = IF clients[c].outcome = "returns" THEN @ + 1 ELSE @,
       ![c].pc = "done"]
  /\ UNCHANGED <<backend, memories, embeddings, tx, pend, nextId, calls,
                 stores, deleted, res, srv, startup, batch,
                 stats, schema>>

\* finally { this.releaseClient?.(client) }, then the operation returns or
\* throws
Client_Release(c) ==
  /\ clients[c].pc = "finally"
  /\ clients' = [clients EXCEPT ![c].released = @ + 1, ![c].pc = "done"]
  /\ UNCHANGED <<backend, memories, embeddings, tx, pend, nextId, calls,
                 stores, deleted, res, srv, startup, batch,
                 stats, schema>>

-----------------------------------------------------------------------------
(* Embedding providers: generateEmbeddings(texts).  The remote service     *)
(* answers a request with the embeddings of its inputs, in the order of    *)
(* the inputs, or with an error.                                           *)

Texts == <<"a", "b">>

\* the vector the model of provider p computes for a text
EmbeddingOf(p, text) ==
  Vec(TableDim(p), CHOOSE i \in 1..Len(Texts) : Texts[i] = text, 0)

NoBatch ==
  [provider |-> OLLAMA, texts |-> <<>>, status |-> "idle", sent |-> <<>>,
   pending |-> 0, embeddings |-> <<>>, result |-> <<>>]

\* generateEmbeddings(texts) is called on provider p
generateEmbeddings(p, texts) ==
  /\ batch.status = "idle"
  /\ batch' = [NoBatch EXCEPT !.provider = p, !.texts = texts,
                              !.status = "running"]
  /\ UNCHANGED <<backend, memories, embeddings, tx, pend, nextId, calls,
                 stores, deleted, res, srv, startup,
                 clients, stats, schema>>

\* the loop starts the next call without awaiting the one before
Ollama_generateEmbedding_NoAwait ==
  /\ batch.status = "running"
  /\ batch.provider = OLLAMA
  /\ Len(batch.sent) < Len(batch.texts)
  /\ batch' = [batch EXCEPT
                 !.sent = Append(@, <<batch.texts[Len(batch.sent) + 1]>>),
                 !.pending = @ + 1]
  /\ UNCHANGED <<backend, memories, embeddings, tx, pend, nextId, calls,
                 stores, deleted, res, srv, startup,
                 clients, stats, schema>>

\* for (const text of texts) { await this.generateEmbedding(text) ...:
\* this.ollama.embeddings({ model, prompt: text }) is sent
Ollama_generateEmbedding ==
  /\ batch.status = "running"
  /\ batch.provider = OLLAMA
  /\ batch.pending = 0
  /\ Len(batch.sent) < Len(batch.texts)
  /\ batch' = [batch EXCEPT
                 !.sent = Append(@, <<batch.texts[Len(batch.sent) + 1]>>),
                 !.pending = @ + 1]
  /\ UNCHANGED <<backend, memories, embeddings, tx, pend, nextId, calls,
                 stores, deleted, res, srv, startup,
                 clients, stats, schema>>

\* the call returns response.embedding: embeddings.push(embedding)
Ollama_generateEmbedding_Returns ==
  /\ batch.status = "running"
  /\ batch.provider = OLLAMA
  /\ batch.pending > 0
  /\ batch' = [batch EXCEPT
                 !.embeddings =
                    Append(@, EmbeddingOf(OLLAMA,
                                batch.sent[Len(batch.embeddings) + 1][1])),
                 !.pending = @ - 1]
  /\ UNCHANGED <<backend, memories, embeddings, tx, pend, nextId, calls,
                 stores, deleted, res, srv, startup,
                 clients, stats, schema>>

\* the call throws (request failed, or no embedding array in the response):
\* the error leaves the loop and generateEmbeddings
Ollama_generateEmbedding_Throws ==
  /\ batch.status = "running"
  /\ batch.provider = OLLAMA
  /\ batch.pending > 0
  /\ batch' = [batch EXCEPT !.status = "failed", !.pending = @ - 1]
  /\ UNCHANGED <<backend, memories, embeddings, tx, pend, nextId, calls,
                 stores, deleted, res, srv, startup,
                 clients, stats, schema>>

\* return embeddings
Ollama_generateEmbeddings_Return ==
  /\ batch.status = "running"
  /\ batch.provider = OLLAMA
  /\ batch.pending = 0
  /\ Len(batch.sent) = Len(batch.texts)
  /\ batch' = [batch EXCEPT !.status = "returned", !.result = batch.embeddings]
  /\ UNCHANGED <<backend, memories, embeddings, tx, pend, nextId, calls,
                 stores, deleted, res, srv, startup,
                 clients, stats, schema>>

\* this.openai.embeddings.create({ model, input: texts }) is sent
OpenAI_generateEmbeddings ==
  /\ batch.status = "running"
  /\ batch.provider = OPENAI
  /\ batch.sent = <<>>
  /\ batch' = [batch EXCEPT !.sent = <<batch.texts>>, !.pending = 1]
  /\ UNCHANGED <<backend, memories, embeddings, tx, pend, nextId, calls,
                 stores, deleted, res, srv, startup,
                 clients, stats, schema>>

\* return response.data.map((item) => item.embedding)
OpenAI_generateEmbeddings_Return ==
  /\ batch.status = "running"
  /\ batch.provider = OPENAI
  /\ batch.pending = 1
  /\ batch' = [batch EXCEPT
                 !.status = "returned",
                 !.pending = 0,
                 !.result = [i \in 1..Len(batch.sent[1]) |->
                               EmbeddingOf(OPENAI, batch.sent[1][i])]]
  /\ UNCHANGED <<backend, memories, embeddings, tx, pend, nextId, calls,
                 stores, deleted, res, srv, startup,
                 clients, stats, schema>>

\* catch (error): throw new Error(`OpenAI embeddings error: ...`)
OpenAI_generateEmbeddings_Throws ==
  /\ batch.status = "running"
  /\ batch.provider = OPENAI
  /\ batch.pending = 1
  /\ batch' = [batch EXCEPT !.status = "failed", !.pending = 0]
  /\ UNCHANGED <<backend, memories, embeddings, tx, pend, nextId, calls,
                 stores, deleted, res, srv, startup,
                 clients, stats, schema>>

\* the caller has the outcome; the provider is ready for the next batch
generateEmbeddings_Done ==
  /\ batch.status \in {"returned", "failed"}
  /\ batch' = NoBatch
  /\ UNCHANGED <<backend, memories, embeddings, tx, pend, nextId, calls,
                 stores, deleted, res, srv, startup,
                 clients, stats, schema>>

-----------------------------------------------------------------------------
(* Process start: new MemoryMCPServer() then run().  An environment       *)
(* variable is a sequence: <<>> when unset, <<s>> when set to string s.    *)

\* x || d on an optional string: undefined and '' are falsy
OrString(o, d) == IF o # <<>> /\ o[1] # "" THEN o[1] ELSE d

DefaultBaseUrl == "http://localhost:11434"

\* const embeddingConfig: EmbeddingConfig = { provider: ..., apiKey: ...,
\* baseUrl: ..., model: ... }
EmbeddingConfigOf(env) ==
  [provider |-> IF env.EMBEDDING_PROVIDER = <<"openai">> THEN OPENAI ELSE OLLAMA,
   apiKey   |-> env.OPENAI_API_KEY,
   baseUrl  |-> <<OrString(env.OLLAMA_BASE_URL, DefaultBaseUrl)>>,
   model    |-> OrString(env.EMBEDDING_MODEL, ConfiguredModel)]

\* createDatabaseConfig: PostgreSQL when DATABASE_URL is set, else PGlite
DatabaseTypeOf(env) ==
  IF env.DATABASE_URL # <<>> /\ env.DATABASE_URL[1] # ""
  THEN "postgresql" ELSE "pglite"

NoProvider == [kind |-> "none", type |-> "", model |-> "", message |-> ""]

\* createEmbeddingProvider: the provider it returns or the Error it throws;
\* config.provider is any string here, as the factory's default branch
\* expects
createEmbeddingProvider(config) ==
  IF config.provider = OPENAI
  THEN IF config.apiKey = <<>> \/ config.apiKey[1] = ""
       THEN [NoProvider EXCEPT !.kind = "error",
                               !.message = "OpenAI API key is required"]
       ELSE [NoProvider EXCEPT !.kind = "provider", !.type = OPENAI,
                               !.model = config.model]
  ELSE IF config.provider = OLLAMA
  THEN IF config.baseUrl = <<>> \/ config.baseUrl[1] = ""
       THEN [NoProvider EXCEPT !.kind = "error",
                               !.message = "Ollama base URL is required"]
       ELSE [NoProvider EXCEPT !.kind = "provider", !.type = OLLAMA,
                               !.model = config.model]
  ELSE [NoProvider EXCEPT !.kind = "error",
                          !.message = "Unsupported embedding provider"]

NoEnv ==
  [EMBEDDING_PROVIDER |-> <<>>, OPENAI_API_KEY |-> <<>>,
   OLLAMA_BASE_URL |-> <<>>, EMBEDDING_MODEL |-> <<>>, DATABASE_URL |-> <<>>]

\* the process before  const server = new MemoryMCPServer()
Starting(env) == [phase |-> "new", env |-> env, embeddings |-> NoProvider]

\* the process of a server started with nothing set, serving requests
Started ==
  [phase |-> "serving", env |-> NoEnv,
   embeddings |-> createEmbeddingProvider(EmbeddingConfigOf(NoEnv))]

\* constructor(): an Error thrown by new EmbeddingService(embeddingConfig)
\* leaves the constructor and ends the process
MemoryMCPServer_constructor ==
  LET made == createEmbeddingProvider(EmbeddingConfigOf(startup.env)) IN
  /\ startup.phase = "new"
  /\ startup' = [startup EXCEPT
                   !.embeddings = made,
                   !.phase = IF made.kind = "error" THEN "crashed"
                             ELSE "constructed"]
  /\ UNCHANGED <<backend, memories, embeddings, tx, pend, nextId, calls,
                 stores, deleted, res, srv, batch, clients, stats,
                 schema>>

\* run(): testConnection, initializeSchema and server.connect succeed
MemoryMCPServer_run ==
  /\ startup.phase = "constructed"
  /\ startup' = [startup EXCEPT !.phase = "serving"]
  /\ UNCHANGED <<backend, memories, embeddings, tx, pend, nextId, calls,
                 stores, deleted, res, srv, batch, clients, stats,
                 schema>>

\* run(): one of them throws: catch (error) { process.exit(1) }
MemoryMCPServer_runFails ==
  /\ startup.phase = "constructed"
  /\ startup' = [startup EXCEPT !.phase = "exited"]
  /\ UNCHANGED <<backend, memories, embeddings, tx, pend, nextId, calls,
                 stores, deleted, res, srv, batch, clients, stats,
                 schema>>

\* the request handler of a serving process answers a request for an
\* unknown tool
MemoryMCPServer_serve(name) ==
  /\ startup.phase = "serving"
  /\ handleUnknownTool(name, Undefined)
  /\ UNCHANGED <<startup, batch, clients, stats, schema>>

-----------------------------------------------------------------------------
(* Concurrent calls on either backend *)

Init ==
  /\ backend \in {"postgresql", "pglite"}
  /\ memories = {}
  /\ embeddings = [p \in EmbeddingProviderType |-> {}]
  /\ tx = [s \in Sessions |-> "idle"]
  /\ pend = [s \in Sessions |-> NoPend]
  /\ nextId = 1
  /\ calls = [c \in Calls |-> IdleCall]
  /\ stores = {}
  /\ deleted = [i \in Ids |-> 0]
  /\ res = [op |-> "none", arg |-> <<>>, val |-> Null]
  /\ srv = ServerIdle
  /\ startup = Started
  /\ batch = NoBatch
  /\ clients = [c \in Calls |-> NoClient]
  /\ stats = NoStats
  /\ schema = NoSchema

StoreMemoryStart ==
  /\ \E c \in Calls : \E a \in StoreArgs : StoreMemory_GetClient(c, a)
  /\ UNCHANGED <<srv, proc>>

StoreMemoryBegin ==
  /\ \E c \in Calls : StoreMemory_Begin(c)
  /\ UNCHANGED <<srv, proc>>

StoreMemoryInsertMemory ==
  /\ \E c \in Calls : StoreMemory_InsertMemory(c)
  /\ UNCHANGED <<srv, proc>>

StoreMemoryInsertEmbedding ==
  /\ \E c \in Calls : StoreMemory_InsertEmbedding(c)
  /\ UNCHANGED <<srv, proc>>

StoreMemoryCommit ==
  /\ \E c \in Calls : StoreMemory_Commit(c)
  /\ UNCHANGED <<srv, proc>>

StoreMemoryRollback ==
  /\ \E c \in Calls : StoreMemory_Rollback(c)
  /\ UNCHANGED <<srv, proc>>

GetMemoryById ==
  /\ \E id \in Ids : getMemoryById(id)
  /\ UNCHANGED <<srv, proc>>

GetMemoryWithEmbeddingById ==
  /\ \E id \in Ids : \E p \in EmbeddingProviderType :
       getMemoryWithEmbeddingById(id, p)
  /\ UNCHANGED <<srv, proc>>

DeleteMemory ==
  /\ \E id \in Ids : deleteMemory(id)
  /\ UNCHANGED <<srv, proc>>

SearchMemories ==
  /\ \E a \in SearchArgs : searchMemories(a[1], a[2], a[3])
  /\ UNCHANGED <<srv, proc>>

Next ==
  \/ StoreMemoryStart
  \/ StoreMemoryBegin
  \/ StoreMemoryInsertMemory
  \/ StoreMemoryInsertEmbedding
  \/ StoreMemoryCommit
  \/ StoreMemoryRollback
  \/ GetMemoryById
  \/ GetMemoryWithEmbeddingById
  \/ DeleteMemory
  \/ SearchMemories

Spec == Init /\ [][Next]_vars

-----------------------------------------------------------------------------
(* A sequential caller: one store at a time with varied rows, and searches *)
(* between the stores                                                      *)

SearchStoreArgs ==
  {StoreArgsOf(NoInput,
               Vec(OpenaiDim, x[1], x[2]), "text-embedding-3-small", OPENAI) :
     x \in {<<1, 0>>, <<3, 4>>, <<-1, 0>>, <<0, 0>>}}
  \cup
  {StoreArgsOf([content |-> "note", tags |-> <<>>, importanceScore |-> <<3>>],
               Vec(OpenaiDim, 1, 0), "text-embedding-3-small", OPENAI),
   StoreArgsOf([content |-> "Use 2-space indent", tags |-> <<{"style"}>>,
                importanceScore |-> <<5>>],
               Vec(OpenaiDim, 3, 4), "text-embedding-3-large", OPENAI),
   StoreArgsOf([content |-> "note", tags |-> <<>>, importanceScore |-> <<7>>],
               Vec(OpenaiDim, 1, 0), "text-embedding-3-small", OPENAI),
   StoreArgsOf([content |-> "note", tags |-> <<>>, importanceScore |-> <<0>>],
               Vec(OllamaDim, 1, 0), "nomic-embed-text", OLLAMA)}

SearchQueries ==
  {<<SearchInputOf(l, t, <<>>, <<>>, <<>>), Vec(OpenaiDim, 1, 0), OPENAI>> :
     l \in {<<>>, <<1>>, <<0>>}, t \in {<<>>, <<0>>, <<-100>>}}
  \cup
  {<<SearchInputOf(<<>>, <<110>>, <<>>, <<>>, <<>>), Vec(OpenaiDim, 1, 0), OPENAI>>,
   <<SearchInputOf(<<>>, <<>>, <<>>, <<>>, <<>>), Vec(OpenaiDim, 0, 0), OPENAI>>,
   <<SearchInputOf(<<-1>>, <<>>, <<>>, <<>>, <<>>), Vec(OpenaiDim, 1, 0), OPENAI>>,
   <<SearchInputOf(<<>>, <<-100>>, <<>>, <<>>, <<"">>), Vec(OpenaiDim, 1, 0), OPENAI>>,
   <<SearchInputOf(<<>>, <<-100>>, <<{"style"}>>, <<>>, <<>>),
     Vec(OpenaiDim, 1, 0), OPENAI>>,
   <<SearchInputOf(<<>>, <<-100>>, <<>>, <<>>, <<"text-embedding-3-large">>),
     Vec(OpenaiDim, 1, 0), OPENAI>>,
   <<SearchInputOf(<<>>, <<0>>, <<>>, <<OLLAMA>>, <<>>),
     Vec(OllamaDim, 1, 0), OPENAI>>}

SearchStoreStart ==
  /\ \E a \in SearchStoreArgs : StoreMemory_GetClient(1, a)
  /\ UNCHANGED <<srv, proc>>

SearchQuery ==
  /\ Quiescent
  /\ \E a \in SearchQueries : searchMemories(a[1], a[2], a[3])
  /\ UNCHANGED <<srv, proc>>

NextSearch ==
  \/ SearchStoreStart
  \/ StoreMemoryBegin
  \/ StoreMemoryInsertMemory
  \/ StoreMemoryInsertEmbedding
  \/ StoreMemoryCommit
  \/ StoreMemoryRollback
  \/ SearchQuery

SpecSearch == Init /\ [][NextSearch]_vars

-----------------------------------------------------------------------------
(* A store that already holds up to PageRows memories, each stored by a    *)
(* successful storeMemory of a sequential caller, and a caller that lists  *)
(* and deletes                                                             *)

ListInputOf(limit, offset, tags, minImportance, startDate, endDate, provider) ==
  [limit |-> limit, offset |-> offset, tags |-> tags,
   minImportance |-> minImportance, startDate |-> startDate,
   endDate |-> endDate, embeddingProvider |-> provider]

PageStoreArgs ==
  StoreArgsOf(NoInput, Vec(OpenaiDim, 1, 0), "text-embedding-3-small", OPENAI)

\* the embedding row storeMemory inserts for the memory id
EmbeddingRowOf(a, id) ==
  [memory_id |-> id, embedding |-> ToVector(a.embedding),
   model |-> a.embeddingModel]

\* numbers of memories the store holds at first: none, one, a full page of
\* the documented size, and more than a page
PageSizes == {0, 1, DocumentedListLimit, PageRows}

InitPage ==
  /\ backend \in {"postgresql", "pglite"}
  /\ \E n \in PageSizes :
       /\ memories = {MemoryRowOf(PageStoreArgs.input, i) : i \in 1..n}
       /\ embeddings =
            [p \in EmbeddingProviderType |->
               IF p = PageStoreArgs.embeddingProvider
               THEN {EmbeddingRowOf(PageStoreArgs, i) : i \in 1..n} ELSE {}]
       /\ nextId = n + 1
       /\ stores =
            {[id |-> i,
              memory |-> ToMemory(MemoryRowOf(PageStoreArgs.input, i)),
              embedding |-> PageStoreArgs.embedding,
              embeddingModel |-> PageStoreArgs.embeddingModel,
              embeddingProvider |-> PageStoreArgs.embeddingProvider,
              status |-> "ok"] : i \in 1..n}
  /\ tx = [s \in Sessions |-> "idle"]
  /\ pend = [s \in Sessions |-> NoPend]
  /\ calls = [c \in Calls |-> IdleCall]
  /\ deleted = [i \in Ids |-> 0]
  /\ res = [op |-> "none", arg |-> <<>>, val |-> Null]
  /\ srv = ServerIdle
  /\ startup = Started
  /\ batch = NoBatch
  /\ clients = [c \in Calls |-> NoClient]
  /\ stats = NoStats
  /\ schema = NoSchema

PageListInputs ==
  {ListInputOf(l, o, <<>>, <<>>, <<>>, <<>>, <<>>) :
     l \in {<<>>, <<DocumentedListLimit>>}, o \in {<<>>, <<1>>}}

\* arguments of the listMemories tool: none, a limit, a limit and an offset
PageListCalls ==
  <<Obj(<<>>),
    Obj([limit |-> NumV(DocumentedListLimit)]),
    Obj([limit |-> NumV(1), offset |-> NumV(1)])>>

PageList ==
  /\ \E input \in PageListInputs : listMemories(input)
  /\ UNCHANGED <<srv, proc>>

PageToolList ==
  /\ \E i \in 1..Len(PageListCalls) : handleListMemories(PageListCalls[i])
  /\ UNCHANGED proc

PageDelete ==
  /\ \E id \in Ids : deleteMemory(id)
  /\ UNCHANGED <<srv, proc>>

NextPage ==
  \/ PageList
  \/ PageToolList
  \/ PageDelete

SpecPage == InitPage /\ [][NextPage]_vars

-----------------------------------------------------------------------------
(* A sequential caller of the database service: stores with varied tags,   *)
(* importance and provider, deletes, and listMemories, listTags and        *)
(* getStats between them                                                   *)

ListStoreArgs ==
  {StoreArgsOf([content |-> "Use 2-space indent", tags |-> <<{"style"}>>,
                importanceScore |-> <<3>>],
               Vec(OllamaDim, 1, 0), "nomic-embed-text", OLLAMA),
   StoreArgsOf([content |-> "note", tags |-> <<{"react", "api"}>>,
                importanceScore |-> <<>>],
               Vec(OpenaiDim, 1, 0), "text-embedding-3-small", OPENAI),
   StoreArgsOf([content |-> "note", tags |-> <<{"style", "react"}>>,
                importanceScore |-> <<5>>],
               Vec(OpenaiDim, 3, 4), "text-embedding-3-small", OPENAI),
   StoreArgsOf(NoInput, Vec(OllamaDim, 1, 0), "text-embedding-3-small", OPENAI)}

ListQueries ==
  {ListInputOf(<<>>, <<>>, t, <<>>, <<>>, <<>>, p) :
     t \in {<<>>, <<{"style"}>>, <<{}>>}, p \in {<<>>, <<OPENAI>>, <<OLLAMA>>}}
  \cup
  {ListInputOf(<<>>, <<>>, <<>>, i, <<>>, <<>>, <<>>) : i \in {<<3>>, <<0>>}}
  \cup
  {ListInputOf(<<>>, <<>>, <<>>, <<>>, s, e, <<>>) :
     s \in {<<>>, <<IsoDate(2)>>, <<EmptyDate>>},
     e \in {<<>>, <<IsoDate(2)>>, <<BadDate>>}}
  \cup
  {ListInputOf(l, o, <<>>, <<>>, <<>>, <<>>, <<>>) :
     l \in {<<>>, <<1>>, <<0>>, <<-1>>}, o \in {<<>>, <<1>>}}
  \cup
  {ListInputOf(<<>>, <<>>, <<{"react"}>>, <<3>>, <<IsoDate(1)>>, <<>>, <<OPENAI>>)}

ListStoreStart ==
  /\ \E a \in ListStoreArgs : StoreMemory_GetClient(1, a)
  /\ UNCHANGED <<srv, proc>>

ListQuery ==
  /\ Quiescent
  /\ \E input \in ListQueries : listMemories(input)
  /\ UNCHANGED <<srv, proc>>

ListTagsQuery ==
  /\ Quiescent
  /\ listTags
  /\ UNCHANGED <<srv, proc>>

StatsQuery ==
  /\ Quiescent
  /\ getStats
  /\ UNCHANGED <<srv, proc>>

ListDelete ==
  /\ Quiescent
  /\ \E id \in Ids : deleteMemory(id)
  /\ UNCHANGED <<srv, proc>>

NextList ==
  \/ ListStoreStart
  \/ StoreMemoryBegin
  \/ StoreMemoryInsertMemory
  \/ StoreMemoryInsertEmbedding
  \/ StoreMemoryCommit
  \/ StoreMemoryRollback
  \/ ListQuery
  \/ ListTagsQuery
  \/ StatsQuery
  \/ ListDelete

SpecList == Init /\ [][NextList]_vars

-----------------------------------------------------------------------------
(* The server handling one request after another                           *)

\* requests: tool name and arguments, valid and invalid
ToolCalls ==
  <<<<"storeMemory", Obj([content |-> Str("Use 2-space indent"),
                          tags |-> Arr(<<Str("style")>>),
                          importanceScore |-> NumV(3)])>>,
    <<"storeMemory", Obj([content |-> Str("note")])>>,
    <<"storeMemory", Obj([tags |-> Arr(<<Str("style")>>)])>>,
    <<"storeMemory", Obj([content |-> Str("note"),
                          importanceScore |-> NumV(7)])>>,
    <<"storeMemory", Obj([content |-> Str("note"),
                          tags |-> Arr(<<NumV(1)>>)])>>,
    <<"storeMemory", Undefined>>,
    <<"searchMemories", Obj([query |-> Str("indent")])>>,
    <<"searchMemories", Obj([query |-> Str("indent"), limit |-> NumV(-1)])>>,
    <<"searchMemories", Obj([limit |-> NumV(5)])>>,
    <<"searchMemories", Obj([query |-> Str("indent"),
                             embeddingProvider |-> Str("cohere")])>>,
    <<"listMemories", Obj(<<>>)>>,
    <<"listMemories", Obj([endDate |-> Str("yesterday")])>>,
    <<"listMemories", Obj([limit |-> Str("5")])>>,
    <<"listMemories", Undefined>>,
    <<"deleteMemory", Obj([memoryId |-> NumV(1)])>>,
    <<"deleteMemory", Obj([memoryId |-> Str("1")])>>,
    <<"listTags", Undefined>>,
    <<"getMemoryStats", Undefined>>,
    <<"updateMemory", Obj(<<>>)>>>>

CallsOf(name) == {i \in 1..Len(ToolCalls) : ToolCalls[i][1] = name}

CallToolInvalid ==
  /\ \E i \in 1..Len(ToolCalls) : handleInvalidArgs(ToolCalls[i][1], ToolCalls[i][2])
  /\ UNCHANGED proc

CallToolUnknown ==
  /\ \E i \in 1..Len(ToolCalls) : handleUnknownTool(ToolCalls[i][1], ToolCalls[i][2])
  /\ UNCHANGED proc

CallToolEmbedding ==
  /\ \E i \in 1..Len(ToolCalls) : handleWithEmbedding(ToolCalls[i][1], ToolCalls[i][2])
  /\ UNCHANGED proc

EmbeddingThrows ==
  /\ generateEmbedding_Throws
  /\ UNCHANGED proc

ServerStore ==
  /\ \E e \in EmbeddingReplies : handleStoreMemory_Store(e)
  /\ UNCHANGED proc

ServerStoreReturn ==
  /\ handleStoreMemory_Return
  /\ UNCHANGED proc

ServerStoreThrow ==
  /\ handleStoreMemory_Throw
  /\ UNCHANGED proc

ServerSearch ==
  /\ \E e \in EmbeddingReplies : handleSearchMemories_Search(e)
  /\ UNCHANGED proc

CallListMemories ==
  /\ \E i \in CallsOf("listMemories") : handleListMemories(ToolCalls[i][2])
  /\ UNCHANGED proc

CallDeleteMemory ==
  /\ \E i \in CallsOf("deleteMemory") : handleDeleteMemory(ToolCalls[i][2])
  /\ UNCHANGED proc

CallListTags ==
  /\ \E i \in CallsOf("listTags") : handleListTags(ToolCalls[i][2])
  /\ UNCHANGED proc

CallGetMemoryStats ==
  /\ \E i \in CallsOf("getMemoryStats") : handleGetMemoryStats(ToolCalls[i][2])
  /\ UNCHANGED proc

NextServer ==
  \/ CallToolInvalid
  \/ CallToolUnknown
  \/ CallToolEmbedding
  \/ EmbeddingThrows
  \/ ServerStore
  \/ StoreMemoryBegin
  \/ StoreMemoryInsertMemory
  \/ StoreMemoryInsertEmbedding
  \/ ServerStoreReturn
  \/ ServerStoreThrow
  \/ ServerSearch
  \/ CallListMemories
  \/ CallDeleteMemory
  \/ CallListTags
  \/ CallGetMemoryStats

SpecServer == Init /\ [][NextServer]_vars

-----------------------------------------------------------------------------
(* Starting the process under every environment *)

EnvProviders == {<<>>, <<"openai">>, <<"ollama">>, <<"cohere">>, <<"OpenAI">>}

EnvStrings(s) == {<<>>, <<"">>, <<s>>}

Environments ==
  [EMBEDDING_PROVIDER : EnvProviders,
   OPENAI_API_KEY     : EnvStrings("sk-key"),
   OLLAMA_BASE_URL    : EnvStrings("http://ollama:11434"),
   EMBEDDING_MODEL    : {<<>>, <<"text-embedding-3-small">>},
   DATABASE_URL       : {<<>>, <<"postgresql://db/memory">>}]

InitStart ==
  /\ \E env \in Environments :
       /\ startup = Starting(env)
       /\ backend = DatabaseTypeOf(env)
  /\ memories = {}
  /\ embeddings = [p \in EmbeddingProviderType |-> {}]
  /\ tx = [s \in Sessions |-> "idle"]
  /\ pend = [s \in Sessions |-> NoPend]
  /\ nextId = 1
  /\ calls = [c \in Calls |-> IdleCall]
  /\ stores = {}
  /\ deleted = [i \in Ids |-> 0]
  /\ res = [op |-> "none", arg |-> <<>>, val |-> Null]
  /\ srv = ServerIdle
  /\ batch = NoBatch
  /\ clients = [c \in Calls |-> NoClient]
  /\ stats = NoStats
  /\ schema = NoSchema

StartConstruct == MemoryMCPServer_constructor

StartRun == MemoryMCPServer_run

StartRunFails == MemoryMCPServer_runFails

StartServe == MemoryMCPServer_serve("updateMemory")

NextStart ==
  \/ StartConstruct
  \/ StartRun
  \/ StartRunFails
  \/ StartServe

SpecStart == InitStart /\ [][NextStart]_vars

-----------------------------------------------------------------------------
(* Batches of texts through either provider *)

RECURSIVE TextLists(_)
TextLists(n) ==
  IF n = 0 THEN {<<>>}
  ELSE LET shorter == TextLists(n - 1) IN
       shorter \cup {Append(q, Texts[i]) : q \in shorter, i \in 1..Len(Texts)}

BatchStart ==
  \E p \in EmbeddingProviderType, texts \in TextLists(MaxTexts) :
    generateEmbeddings(p, texts)

NextBatch ==
  \/ BatchStart
  \/ Ollama_generateEmbedding
  \/ Ollama_generateEmbedding_Returns
  \/ Ollama_generateEmbedding_Throws
  \/ Ollama_generateEmbeddings_Return
  \/ OpenAI_generateEmbeddings
  \/ OpenAI_generateEmbeddings_Return
  \/ OpenAI_generateEmbeddings_Throws
  \/ generateEmbeddings_Done

SpecBatch == Init /\ [][NextBatch]_vars

-----------------------------------------------------------------------------
(* Stores of every importance and tag list, through the storeMemory tool   *)
(* and directly on the database service, one call at a time                *)

ScoreInputs ==
  {[content |-> "note", tags |-> t, importanceScore |-> i] :
     t \in {<<>>, <<{}>>, <<{"style"}>>},
     i \in {<<>>, <<0>>, <<1>>, <<5>>, <<6>>, <<-1>>, <<2, 5>>}}

ScoreToolCalls ==
  <<Obj([content |-> Str("note")]),
    Obj([content |-> Str("note"), importanceScore |-> NumV(5),
         tags |-> Arr(<<Str("style")>>)]),
    Obj([content |-> Str("note"), importanceScore |-> NumV(0)]),
    Obj([content |-> Str("note"), importanceScore |-> NumV(6)]),
    Obj([content |-> Str("note"), importanceScore |-> NumHalf(2),
         tags |-> Arr(<<>>)]),
    Obj([content |-> Str("note"), importanceScore |-> NumHalf(5)]),
    Obj([content |-> Str("note"), importanceScore |-> Str("5")])>>

ScoreStoreStart ==
  /\ srv.pc = "idle"
  /\ \E input \in ScoreInputs :
       StoreMemory_GetClient(1, StoreArgsOf(input, Vec(OllamaDim, 1, 0),
                                            ConfiguredModel, OLLAMA))
  /\ UNCHANGED <<srv, proc>>

ScoreStoreCommit ==
  /\ srv.pc = "idle"
  /\ StoreMemory_Commit(1)
  /\ UNCHANGED <<srv, proc>>

ScoreStoreRollback ==
  /\ srv.pc = "idle"
  /\ StoreMemory_Rollback(1)
  /\ UNCHANGED <<srv, proc>>

ScoreToolInvalid ==
  /\ \E i \in 1..Len(ScoreToolCalls) :
       handleInvalidArgs("storeMemory", ScoreToolCalls[i])
  /\ UNCHANGED proc

ScoreToolStore ==
  /\ \E i \in 1..Len(ScoreToolCalls) :
       handleWithEmbedding("storeMemory", ScoreToolCalls[i])
  /\ UNCHANGED proc

ScoreToolEmbedded ==
  /\ handleStoreMemory_Store(Vec(OllamaDim, 1, 0))
  /\ UNCHANGED proc

NextScore ==
  \/ ScoreStoreStart
  \/ ScoreStoreCommit
  \/ ScoreStoreRollback
  \/ ScoreToolInvalid
  \/ ScoreToolStore
  \/ ScoreToolEmbedded
  \/ StoreMemoryBegin
  \/ StoreMemoryInsertMemory
  \/ StoreMemoryInsertEmbedding
  \/ ServerStoreReturn
  \/ ServerStoreThrow

SpecScore == Init /\ [][NextScore]_vars

-----------------------------------------------------------------------------
(* Stores of vectors of every length into either provider's table, one     *)
(* call at a time                                                          *)

VectorLengths == {0, OllamaDim, 1024, OpenaiDim, OpenaiDim + 1}

DimStoreArgs ==
  {StoreArgsOf(NoInput, Vec(d, 1, 0), ConfiguredModel, p) :
     d \in VectorLengths, p \in EmbeddingProviderType}

DimStoreStart ==
  /\ \E a \in DimStoreArgs : StoreMemory_GetClient(1, a)
  /\ UNCHANGED <<srv, proc>>

DimRead ==
  /\ Quiescent
  /\ \E id \in Ids, p \in EmbeddingProviderType :
       getMemoryWithEmbeddingById(id, p)
  /\ UNCHANGED <<srv, proc>>

NextDim ==
  \/ DimStoreStart
  \/ StoreMemoryBegin
  \/ StoreMemoryInsertMemory
  \/ StoreMemoryInsertEmbedding
  \/ StoreMemoryCommit
  \/ StoreMemoryRollback
  \/ DimRead

SpecDim == Init /\ [][NextDim]_vars

-----------------------------------------------------------------------------
(* Concurrent operations, each with its client, any statement failing      *)

Operations == {"storeMemory", "query"}

ClientGet == \E c \in Calls, op \in Operations : Client_GetClient(c, op)

ClientQuery == \E c \in Calls : Client_Query(c)

ClientQueryFails == \E c \in Calls, lost \in BOOLEAN : Client_QueryFails(c, lost)

ClientRollback == \E c \in Calls : Client_Rollback(c)

ClientRollbackFails == \E c \in Calls : Client_RollbackFails(c)

ClientRelease == \E c \in Calls : Client_Release(c)

NextClient ==
  \/ ClientGet
  \/ ClientQuery
  \/ ClientQueryFails
  \/ ClientRollback
  \/ ClientRollbackFails
  \/ ClientRelease

SpecClient == Init /\ [][NextClient]_vars

-----------------------------------------------------------------------------
(* getStats while storeMemory and deleteMemory calls run                   *)

StatsStoreArgs ==
  {StoreArgsOf([content |-> "note", tags |-> <<{"style"}>>,
                importanceScore |-> <<>>],
               Vec(OpenaiDim, 1, 0), "text-embedding-3-small", OPENAI),
   StoreArgsOf([content |-> "note", tags |-> <<{"react"}>>,
                importanceScore |-> <<3>>],
               Vec(OllamaDim, 1, 0), ConfiguredModel, OLLAMA)}

StatsStoreStart ==
  /\ \E c \in Calls : \E a \in StatsStoreArgs : StoreMemory_GetClient(c, a)
  /\ UNCHANGED <<srv, proc>>

\* getStats on PGlite
StatsOnPGlite ==
  /\ backend = "pglite"
  /\ res.op # "getStats"
  /\ getStats
  /\ stats' = [NoStats EXCEPT !.counted = VMem(ClientSession)]
  /\ UNCHANGED <<srv, startup, batch, clients, schema>>

StatsQueryTotal ==
  /\ getStats_StatsQuery
  /\ UNCHANGED <<srv, startup, batch, clients, schema>>

StatsQueryTags ==
  /\ getStats_TagsQuery
  /\ UNCHANGED <<srv, startup, batch, clients, schema>>

StatsQueryOpenai ==
  /\ getStats_OpenaiCountQuery
  /\ UNCHANGED <<srv, startup, batch, clients, schema>>

StatsQueryOllama ==
  /\ getStats_OllamaCountQuery
  /\ UNCHANGED <<srv, startup, batch, clients, schema>>

StatsReturn ==
  /\ getStats_Return
  /\ UNCHANGED <<srv, startup, batch, clients, schema>>

NextStats ==
  \/ StatsStoreStart
  \/ StoreMemoryBegin
  \/ StoreMemoryInsertMemory
  \/ StoreMemoryInsertEmbedding
  \/ StoreMemoryCommit
  \/ StoreMemoryRollback
  \/ DeleteMemory
  \/ StatsOnPGlite
  \/ StatsQueryTotal
  \/ StatsQueryTags
  \/ StatsQueryOpenai
  \/ StatsQueryOllama
  \/ StatsReturn

SpecStats == Init /\ [][NextStats]_vars

-----------------------------------------------------------------------------
(* searchMemories calls that name an embedding provider                    *)

\* valid requests: a search names no provider, the configured one, the other
ProviderCalls ==
  <<<<"storeMemory", Obj([content |-> Str("Use 2-space indent"),
                          tags |-> Arr(<<Str("style")>>)])>>,
    <<"storeMemory", Obj([content |-> Str("note"),
                          importanceScore |-> NumV(3)])>>,
    <<"searchMemories", Obj([query |-> Str("indent")])>>,
    <<"searchMemories", Obj([query |-> Str("indent"),
                             embeddingProvider |-> Str("ollama")])>>,
    <<"searchMemories", Obj([query |-> Str("indent"),
                             embeddingProvider |-> Str("openai")])>>>>

\* the configured provider answers with vectors of its own dimension
ProviderReplies ==
  {Vec(TableDim(ConfiguredProvider), 1, 0),
   Vec(TableDim(ConfiguredProvider), 0, 1)}

ProviderCallTool ==
  /\ \E i \in 1..Len(ProviderCalls) :
       handleWithEmbedding(ProviderCalls[i][1], ProviderCalls[i][2])
  /\ UNCHANGED proc

ProviderStore ==
  /\ \E e \in ProviderReplies : handleStoreMemory_Store(e)
  /\ UNCHANGED proc

ProviderSearch ==
  /\ \E e \in ProviderReplies : handleSearchMemories_Search(e)
  /\ UNCHANGED proc

NextProvider ==
  \/ ProviderCallTool
  \/ ProviderStore
  \/ StoreMemoryBegin
  \/ StoreMemoryInsertMemory
  \/ StoreMemoryInsertEmbedding
  \/ ServerStoreReturn
  \/ ProviderSearch

SpecProvider == Init /\ [][NextProvider]_vars

-----------------------------------------------------------------------------
(* initializeSchema on scripts                                             *)

MaxScript == 4

ScriptTokens == {"\n", ";", "$$", "SELECT 1"}

RECURSIVE TokenLists(_)
TokenLists(n) ==
  IF n = 0 THEN {<<>>}
  ELSE TokenLists(n - 1)
         \cup {Append(q, t) : q \in {r \in TokenLists(n - 1) : Len(r) = n - 1},
                              t \in ScriptTokens}

\* the script of the program and the short scripts that exec accepts
Scripts ==
  {INITIALIZATION_SQL} \cup {q \in TokenLists(MaxScript) : Terminated(q)}

InitSchema ==
  /\ backend \in {"postgresql", "pglite"}
  /\ memories = {}
  /\ embeddings = [p \in EmbeddingProviderType |-> {}]
  /\ tx = [s \in Sessions |-> "idle"]
  /\ pend = [s \in Sessions |-> NoPend]
  /\ nextId = 1
  /\ calls = [c \in Calls |-> IdleCall]
  /\ stores = {}
  /\ deleted = [i \in Ids |-> 0]
  /\ res = [op |-> "none", arg |-> <<>>, val |-> Null]
  /\ srv = ServerIdle
  /\ startup = Started
  /\ batch = NoBatch
  /\ clients = [c \in Calls |-> NoClient]
  /\ stats = NoStats
  /\ \E script \in Scripts : schema = NewSchema(script)

SchemaExec ==
  /\ initializeSchema_Exec
  /\ UNCHANGED <<srv, startup, batch, clients, stats>>

SchemaSplit ==
  /\ initializeSchema_Split
  /\ UNCHANGED <<srv, startup, batch, clients, stats>>

SchemaQuery ==
  /\ initializeSchema_Query
  /\ UNCHANGED <<srv, startup, batch, clients, stats>>

SchemaReturn ==
  /\ initializeSchema_Return
  /\ UNCHANGED <<srv, startup, batch, clients, stats>>

NextSchema ==
  \/ SchemaExec
  \/ SchemaSplit
  \/ SchemaQuery
  \/ SchemaReturn

SpecSchema == InitSchema /\ [][NextSchema]_vars

-----------------------------------------------------------------------------
(* Properties *)

CommittedIds == {m.id : m \in memories}

\* C1: after a storeMemory call has failed, the memory row it inserted is
\* not in the memories table
C1_FailedStoreLeavesNoRow ==
  \A r \in stores : r.status = "failed" => r.id \notin CommittedIds

\* memory ids a completed read returned
Observed(r) ==
  IF r.val.kind = "row" THEN {r.val.row.id}
  ELSE IF r.val.kind = "rows"
  THEN {r.val.rows[i].memory.id : i \in 1..Len(r.val.rows)}
  ELSE {}

ReadOps == {"getMemoryById", "getMemoryWithEmbeddingById", "searchMemories"}

\* memory ids inserted by a storeMemory call that has not yet run COMMIT
UncommittedIds ==
  {calls[c].memoryId : c \in {d \in Calls : calls[d].pc \in {"insert_embedding", "commit"}}}

\* C2: a read never returns a memory row of a storeMemory call that has not
\* committed, nor a memory row whose embedding row (in the table of the
\* provider it is being stored with) is absent
C2_NoDirtyOrPartialRead ==
  [][(res' # res /\ res'.op \in ReadOps) =>
       \A id \in Observed(res') :
         /\ id \notin UncommittedIds
         /\ id \in EmbIds(ClientSession, StoreOf(id).embeddingProvider)]_vars

\* C3: when no storeMemory call is in flight, every memory row has exactly
\* one embedding row, in the table of the provider it was stored with, and
\* every embedding row refers to an existing memory row
C3_OneEmbeddingPerMemory ==
  Quiescent =>
    /\ \A m \in memories : \A p \in EmbeddingProviderType :
         Cardinality({e \in embeddings[p] : e.memory_id = m.id})
           = IF p = StoreOf(m.id).embeddingProvider THEN 1 ELSE 0
    /\ \A p \in EmbeddingProviderType : \A e \in embeddings[p] :
         e.memory_id \in CommittedIds

\* C4: once deleteMemory(id) has returned true, getMemoryById(id) and
\* getMemoryWithEmbeddingById(id, p), for every provider p, never return
\* the memory again
C4_DeletedStaysDeleted ==
  \A id \in Ids : deleted[id] > 0 =>
    /\ QueryMemoryById(id).kind # "row"
    /\ \A p \in EmbeddingProviderType :
         QueryMemoryWithEmbeddingById(id, p).kind # "row"

\* C5: of all deleteMemory calls for one id at most one returns true, and
\* only for an id that a storeMemory call inserted
C5_DeleteTrueOnce ==
  \A id \in Ids : deleted[id] <= 1 /\ (deleted[id] = 1 => id \in StoredIds)

\* C6: after a successful storeMemory, and while the memory is not deleted,
\* getMemoryWithEmbeddingById(id, provider) returns that id with the
\* embedding, model and provider that were passed to storeMemory
C6_StoreGetRoundTrip ==
  \A r \in stores : (r.status = "ok" /\ deleted[r.id] = 0) =>
    LET g == QueryMemoryWithEmbeddingById(r.id, r.embeddingProvider) IN
    /\ g.kind = "row"
    /\ g.row.id = r.id
    /\ g.row.embedding = r.embedding
    /\ g.row.embeddingModel = r.embeddingModel
    /\ g.row.embeddingProvider = r.embeddingProvider

\* C7: for an existing memory that storeMemory returned,
\* getMemoryWithEmbeddingById returns null, not an error, for a provider it
\* was not stored with and a memory for the provider it was stored with
C7_WrongProviderIsNull ==
  \A m \in VMem(ClientSession) : \A p \in EmbeddingProviderType :
    StoreOf(m.id).status = "ok" =>
      LET g == QueryMemoryWithEmbeddingById(m.id, p) IN
      IF p = StoreOf(m.id).embeddingProvider THEN g.kind = "row" ELSE g = Null

NoFilter(input) == input.tags = <<>> /\ input.embeddingModel = <<>>

\* rows of the searched table whose score is at least 0.0
AtLeastZero(queryEmbedding, p) ==
  {j \in Joined(ClientSession, p) :
     PgGE(Similarity(j[2].embedding, ToVector(queryEmbedding)), Num(0))}

\* C8: searchMemories with similarityThreshold 0.0 and no model or tag
\* filter returns, up to limit, every row of the searched provider table
\* (here: every row whose score is not below the threshold 0.0)
C8_ZeroThresholdReturnsAll ==
  [][(/\ res' # res
      /\ res'.op = "searchMemories"
      /\ res'.val.kind = "rows"
      /\ res'.arg[1].similarityThreshold = <<0>>
      /\ NoFilter(res'.arg[1])) =>
       Len(res'.val.rows) =
         Min(OrDefault(res'.arg[1].limit, DefaultLimit),
             Cardinality(AtLeastZero(res'.arg[2],
                                     OrProvider(res'.arg[1].embeddingProvider,
                                                res'.arg[3]))))]_vars

SearchReturned == res.op = "searchMemories" /\ res.val.kind = "rows"

\* C9: every result searchMemories returns has 0 <= similarityScore <= 1
\* (here: every returned score that is a number)
C9_ScoreInUnitRange ==
  SearchReturned =>
    \A i \in 1..Len(res.val.rows) :
      ~res.val.rows[i].similarityScore.nan =>
        /\ res.val.rows[i].similarityScore.v >= 0
        /\ res.val.rows[i].similarityScore.v <= 100

\* >= and = of two returned scores as numbers: false when either is NaN
NumGE(a, b) == ~a.nan /\ ~b.nan /\ a.v >= b.v

NumEQ(a, b) == ~a.nan /\ ~b.nan /\ a.v = b.v

AskedLimit(input) == IF input.limit = <<>> THEN DefaultLimit ELSE input.limit[1]

\* C11: searchMemories returns at most input.limit results for every
\* supplied limit, 0 included, at most 10 when the limit is omitted, and the
\* results are the first ones of the full ordered list of matches
C11_AtMostLimit ==
  [][(/\ res' # res
      /\ res'.op = "searchMemories"
      /\ res'.val.kind = "rows") =>
       LET input == res'.arg[1]
           p     == OrProvider(input.embeddingProvider, res'.arg[3])
           n     == Len(res'.val.rows)
       IN  /\ n <= AskedLimit(input)
           /\ \E q \in Orderings(SearchRows(input, res'.arg[2], p)) :
                n <= Len(q) /\ res'.val.rows = SubSeq(q, 1, n)]_vars

\* the completed call r is a searchMemories call that returned results
IsSearch(r) == r.op = "searchMemories" /\ r.val.kind = "rows"

\* the provider table the call should search
SearchedProvider(r) == OrProvider(r.arg[1].embeddingProvider, r.arg[3])

\* C12 as stated: every result has an embedding row in the table of the
\* searched provider, carries that provider, has the model of
\* input.embeddingModel when that filter is given, and shares a tag with
\* input.tags when a non-empty tag filter is given
C12_ResultsMatchGivenFilters ==
  [][(res' # res /\ IsSearch(res')) =>
       \A i \in 1..Len(res'.val.rows) :
         LET m     == res'.val.rows[i].memory
             input == res'.arg[1]
         IN  /\ m.id \in EmbIds(ClientSession, SearchedProvider(res'))
             /\ m.embeddingProvider = SearchedProvider(res')
             /\ (input.embeddingModel # <<>>
                   => m.embeddingModel = input.embeddingModel[1])
             /\ (input.tags # <<>> /\ input.tags[1] # {}
                   => m.tags \cap input.tags[1] # {})]_vars

\* C12 amended: as above, with the model of input.embeddingModel when that
\* filter is given and is not the empty string (an empty string is treated
\* as no filter)
C12_ResultsMatchNonEmptyFilters ==
  [][(res' # res /\ IsSearch(res')) =>
       \A i \in 1..Len(res'.val.rows) :
         LET m     == res'.val.rows[i].memory
             input == res'.arg[1]
         IN  /\ m.id \in EmbIds(ClientSession, SearchedProvider(res'))
             /\ m.embeddingProvider = SearchedProvider(res')
             /\ (input.embeddingModel # <<>> /\ input.embeddingModel # <<"">>
                   => m.embeddingModel = input.embeddingModel[1])
             /\ (input.tags # <<>> /\ input.tags[1] # {}
                   => m.tags \cap input.tags[1] # {})]_vars

\* a search with a model filter returned a result while the searched table
\* held an older row of another model
C12_Witness ==
  /\ IsSearch(res)
  /\ res.arg[1].embeddingModel \notin {<<>>, <<"">>}
  /\ Len(res.val.rows) > 0
  /\ \E e \in embeddings[SearchedProvider(res)] :
       /\ e.model # res.arg[1].embeddingModel[1]
       /\ e.memory_id < res.val.rows[1].memory.id

\* the completed call r is a listMemories call that returned memories
IsList(r) == r.op = "listMemories" /\ r.val.kind = "rows"

\* ids of the memories in a returned sequence
IdsOf(q) == {q[i].id : i \in 1..Len(q)}

ToolListed ==
  /\ srv.tool = "listMemories"
  /\ srv.responses = 1
  /\ ~srv.response.isError

\* C14: the listMemories tool returns at most 50 memories when the caller
\* omits limit, and skips no memory when the caller omits offset
C14_ToolDefaultsTo50 ==
  [][(srv' # srv /\ ToolListed') =>
       LET q == srv'.response.result.rows IN
       /\ Field(srv'.args, "limit") = Undefined
            => Len(q) <= DocumentedListLimit
       /\ (Field(srv'.args, "offset") = Undefined /\ memories # {})
            => (Len(q) > 0 /\ \A m \in memories : q[1].createdAt >= m.created_at)]_vars

\* a supplied date filter that is an ISO date
IsoGiven(o) == o # <<>> /\ o[1].kind = "iso"

\* the memory row m satisfies the filters of input other than the tag filter
SatisfiesOthers(m, input) ==
  /\ (input.minImportance # <<>>
        => m.importance_score >= input.minImportance[1])
  /\ (IsoGiven(input.startDate) => m.created_at >= input.startDate[1].t)
  /\ (IsoGiven(input.endDate) => m.created_at <= input.endDate[1].t)
  /\ (input.embeddingProvider # <<>>
        => \E e \in embeddings[input.embeddingProvider[1]] : e.memory_id = m.id)

\* the returned sequence q holds each memory at most once, newest first
OnceNewestFirst(q) ==
  /\ \A i, j \in 1..Len(q) : i < j =>
       q[i].id # q[j].id /\ q[i].createdAt >= q[j].createdAt

\* C15 as stated: listMemories(filters) without limit and offset returns
\* exactly the memories that satisfy every supplied filter (tag set
\* intersects filters.tags, importanceScore >= minImportance, createdAt
\* within the dates, an embedding row in the table of the provider), each
\* at most once, ordered by createdAt descending
C15_ExactlyTheFiltered ==
  [][(/\ res' # res
      /\ IsList(res')
      /\ res'.arg[1].limit = <<>>
      /\ res'.arg[1].offset = <<>>) =>
       LET input == res'.arg[1] IN
       /\ IdsOf(res'.val.rows) =
            {m.id : m \in {n \in memories :
               /\ input.tags # <<>> => n.tags \cap input.tags[1] # {}
               /\ SatisfiesOthers(n, input)}}
       /\ OnceNewestFirst(res'.val.rows)]_vars

\* C15 amended: as above, where a tag filter that is an empty list is no
\* filter: the tag set intersects filters.tags when filters.tags is given
\* and not empty
C15_ExactlyTheFilteredNonEmpty ==
  [][(/\ res' # res
      /\ IsList(res')
      /\ res'.arg[1].limit = <<>>
      /\ res'.arg[1].offset = <<>>) =>
       LET input == res'.arg[1] IN
       /\ IdsOf(res'.val.rows) =
            {m.id : m \in {n \in memories :
               /\ (input.tags # <<>> /\ input.tags[1] # {})
                    => n.tags \cap input.tags[1] # {}
               /\ SatisfiesOthers(n, input)}}
       /\ OnceNewestFirst(res'.val.rows)]_vars

\* listMemories with a tag, an importance, a date and a provider filter
\* returned a memory while the store holds a memory it left out
C15_Witness ==
  /\ IsList(res)
  /\ res.arg[1].tags \notin {<<>>, <<{}>>}
  /\ res.arg[1].minImportance # <<>>
  /\ res.arg[1].startDate # <<>>
  /\ res.arg[1].embeddingProvider # <<>>
  /\ Len(res.val.rows) > 0
  /\ \E m \in memories :
       m.id < res.val.rows[1].id /\ m.id \notin IdsOf(res.val.rows)

\* memories stored by a successful storeMemory and not deleted since
Existing == {r \in stores : r.status = "ok" /\ deleted[r.id] = 0}

ExistingOf(p) == {r \in Existing : r.embeddingProvider = p}

\* C16: with no other operation in flight getStats reports the number of
\* existing memories and, per provider, the number of existing memories
\* stored with that provider; each store adds one and each delete takes
\* away one from totalMemories and from the count of its provider
C16_StatsCountRows ==
  [][(res' # res /\ res'.op = "getStats") =>
       /\ res'.val.kind = "stats"
       /\ res'.val.totalMemories = Cardinality(memories)
       /\ res'.val.openaiEmbeddings = Cardinality(embeddings[OPENAI])
       /\ res'.val.ollamaEmbeddings = Cardinality(embeddings[OLLAMA])
       /\ res'.val.totalMemories = Cardinality(Existing)
       /\ res'.val.openaiEmbeddings = Cardinality(ExistingOf(OPENAI))
       /\ res'.val.ollamaEmbeddings = Cardinality(ExistingOf(OLLAMA))]_vars

\* getStats after an openai store, an ollama store and the delete of the
\* openai memory: one memory, no openai row, one ollama row
C16_Witness ==
  /\ res.op = "getStats"
  /\ res.val.kind = "stats"
  /\ res.val.totalMemories = 1
  /\ res.val.openaiEmbeddings = 0
  /\ res.val.ollamaEmbeddings = 1
  /\ \E r \in stores :
       r.embeddingProvider = OPENAI /\ r.status = "ok" /\ deleted[r.id] = 1

C18_IdPositiveUniqueStable ==
  \A r \in stores : r.status = "ok" =>
    /\ r.id > 0
    /\ r.id < nextId
    /\ \A o \in stores : o.id = r.id => o = r
    /\ deleted[r.id] = 0 =>
         LET g == QueryMemoryById(r.id) IN
         /\ g.kind = "row"
         /\ g.row.id = r.id
         /\ g.row.content = r.memory.content
         /\ g.row.tags = r.memory.tags
         /\ g.row.importanceScore = r.memory.importanceScore

\* the request being handled is a call of a validated tool whose arguments
\* fail validation
InvalidCall(r) == r.tool \in ValidatedTools /\ ~ValidArgs(r.tool, r.args)

\* C19: a call of storeMemory, searchMemories, listMemories or deleteMemory
\* whose arguments fail validation makes no call to the embedding provider
\* and none to the storage engine, leaves the store unchanged and ends with
\* an error response; no provider or storage call is made for arguments
\* that were not validated
C19_ValidationFirst ==
  [][srv' # srv =>
       /\ (srv'.provider > 0 \/ srv'.storage > 0) => ~InvalidCall(srv')
       /\ InvalidCall(srv') =>
            /\ srv'.pc = "idle"
            /\ srv'.responses = 1
            /\ srv'.response.isError
            /\ UNCHANGED <<memories, embeddings, tx, pend, nextId, calls,
                           res>>]_vars

\* an invalid call was answered with an error while the store holds a memory
C19_Witness ==
  /\ InvalidCall(srv)
  /\ srv.responses = 1
  /\ srv.response.isError
  /\ memories # {}

\* the step runs a statement of the storage engine that raises an error
StorageRaises ==
  \/ res' # res /\ res'.val.kind = "error"
  \/ calls[1].pc = "rollback" /\ calls'[1].pc = "idle"

\* C20: every error raised by the embedding provider or the storage engine
\* during a tool call, and a call of an unknown tool, yields exactly one
\* failure response with isError = true carrying the message of the error;
\* the server is then ready for the next call; when the embedding call
\* fails the provider is not called again and no storage operation is
\* performed for that call
C20_OneFailureResponse ==
  [][srv' # srv =>
       /\ srv'.responses <= 1
       /\ StorageRaises => srv'.error.from = "storage"
       /\ srv'.tool \notin Tools => srv'.error.from = "dispatch"
       /\ srv'.error.from # "none" =>
            /\ srv'.pc = "idle"
            /\ srv'.responses = 1
            /\ srv'.response.isError
            /\ srv'.response.text = <<"Error: ", srv'.error.message>>
       /\ srv'.error.from = "provider" =>
            /\ srv'.provider = 1
            /\ srv'.storage = 0
            /\ UNCHANGED <<memories, embeddings, tx, pend, nextId, calls,
                           res>>]_vars

\* a storeMemory call was answered with the stored memory after an earlier
\* call of the server had failed
C20_Witness ==
  /\ srv.failed
  /\ srv.tool = "storeMemory"
  /\ srv.responses = 1
  /\ ~srv.response.isError
  /\ srv.response.result.kind = "row"

-----------------------------------------------------------------------------
\* the provider identity the process was started with is a known variant
\* (unset selects the default provider)
KnownIdentity(env) ==
  env.EMBEDDING_PROVIDER \in {<<>>, <<OPENAI>>, <<OLLAMA>>}

\* the credential the selected provider requires is present (the Ollama
\* base URL has a default)
CredentialPresent(env) ==
  env.EMBEDDING_PROVIDER = <<OPENAI>>
    => env.OPENAI_API_KEY # <<>> /\ env.OPENAI_API_KEY[1] # ""

\* C21: a process started with a provider identity that is not a known
\* variant, or without the credential of the selected provider, fails in
\* the constructor: it is never constructed and never serves a request.
C21_BadConfigurationNeverServes ==
  startup.phase \in {"constructed", "serving"}
    => KnownIdentity(startup.env) /\ CredentialPresent(startup.env)

-----------------------------------------------------------------------------
\* q is the beginning of r
IsPrefix(q, r) ==
  Len(q) <= Len(r) /\ \A i \in 1..Len(q) : q[i] = r[i]

\* C22: a batch that returns gives a list as long as texts whose i-th
\* element is the embedding of texts[i]; the Ollama adapter sends one
\* request per text, in input order, never a second one while one is
\* pending; a batch that failed returns no list, and sends no request
\* after the failure.
C22_BatchInOrderOrFails ==
  [][/\ batch'.status = "returned" =>
          /\ Len(batch'.result) = Len(batch'.texts)
          /\ \A i \in 1..Len(batch'.texts) :
               batch'.result[i] = EmbeddingOf(batch'.provider, batch'.texts[i])
     /\ batch'.provider = OLLAMA =>
          /\ batch'.pending <= 1
          /\ IsPrefix(batch'.sent, [i \in 1..Len(batch'.texts) |->
                                      <<batch'.texts[i]>>])
          /\ batch'.status = "returned" => Len(batch'.sent) = Len(batch'.texts)
     /\ batch'.status = "failed" => batch'.result = <<>>
     /\ batch.status = "failed" /\ batch'.status = "failed"
          => batch'.sent = batch.sent
    ]_vars

\* an Ollama batch of three texts failed at its second request
C22_Witness ==
  /\ batch.provider = OLLAMA
  /\ batch.status = "failed"
  /\ Len(batch.texts) = 3
  /\ Len(batch.sent) = 2
  /\ Len(batch.embeddings) = 1

-----------------------------------------------------------------------------
\* every memory row a statement can see
VisibleMemories ==
  memories \cup UNION {pend[s].mem : s \in Sessions}

\* C23: a storeMemory that returns has persisted the importanceScore that
\* was supplied when it is one of 1..5, and 1 when none was supplied, and
\* the tags supplied, or no tags when none were supplied; no memory row has
\* an importance_score outside 1..5, whatever is passed to the tool or to
\* the database service.
C23_ScoreAndTagsPersisted ==
  [][/\ \A m \in VisibleMemories' :
          m.importance_score \in MinImportance..MaxImportance
     /\ \A c \in Calls :
          calls[c].pc = "commit" /\ calls'[c].pc = "idle" =>
            LET input == calls[c].args.input IN
            \E m \in memories' :
              /\ m.id = calls[c].memoryId
              /\ m.tags = (IF input.tags = <<>> THEN {} ELSE input.tags[1])
              /\ input.importanceScore = <<>>
                   => m.importance_score = DefaultImportance
              /\ input.importanceScore \in
                     {<<i>> : i \in MinImportance..MaxImportance}
                   => m.importance_score = input.importanceScore[1]
    ]_vars

\* a row of importance 5 is stored after an insert that failed the CHECK
\* took an id
C23_Witness ==
  /\ \E m \in memories : m.importance_score = MaxImportance /\ m.id > 1
  /\ nextId - 1 > Cardinality(stores)
  /\ Quiescent

-----------------------------------------------------------------------------
\* every row of memory_embeddings_<p> a statement can see
VisibleEmbeddings(p) ==
  embeddings[p] \cup UNION {pend[s].emb[p] : s \in Sessions}

\* the vector of storeMemory call c has not the length of its table
WrongLength(c) ==
  calls[c].args.embedding.dim # TableDim(calls[c].args.embeddingProvider)

-----------------------------------------------------------------------------
\* clients checked out and not released
CheckedOut ==
  {c \in Calls : clients[c].acquired > clients[c].released}

\* C25: an operation acquires one client and releases it once before it
\* returns or throws, whichever statement failed; when every started
\* operation has completed no client is checked out.
C25_OneClientReleasedOnce ==
  /\ \A c \in Calls :
       /\ clients[c].released <= clients[c].acquired
       /\ clients[c].acquired <= 1
       /\ clients[c].pc = "done" =>
            clients[c].acquired = 1 /\ clients[c].released = 1
       /\ clients[c].pc \in {"try", "catch", "finally"} =>
            clients[c].acquired = 1 /\ clients[c].released = 0
  /\ (\A c \in Calls : clients[c].pc \in {"idle", "done"}) => CheckedOut = {}

\* a storeMemory whose COMMIT and ROLLBACK both failed has completed, and
\* so has a query that failed
C25_Witness ==
  /\ \E c \in Calls :
       /\ clients[c].pc = "done"
       /\ clients[c].failed = <<"COMMIT", "ROLLBACK">>
  /\ \E c \in Calls :
       /\ clients[c].pc = "done"
       /\ clients[c].failed = <<"QUERY">>

-----------------------------------------------------------------------------
\* position of the first occurrence of statement x in q, 0 when absent
PositionIn(q, x) ==
  IF \E i \in 1..Len(q) : q[i] = x
  THEN CHOOSE i \in 1..Len(q) : q[i] = x /\ \A j \in 1..(i - 1) : q[j] # x
  ELSE 0

\* C27: BEGIN is the first statement storeMemory issues; when it returns
\* the last statement was a COMMIT that succeeded and no ROLLBACK was
\* issued; when BEGIN, an insert or COMMIT fails a ROLLBACK is issued after
\* it and the error of the failed statement is the one thrown; the client
\* is not released while the transaction is open.
C27_TransactionBracket ==
  \A c \in Calls :
    LET k == clients[c] IN
    k.op = "storeMemory" =>
      /\ k.issued # <<>> => k.issued[1] = "BEGIN"
      /\ k.outcome = "returns" =>
           /\ k.issued[Len(k.issued)] = "COMMIT"
           /\ k.failed = <<>>
           /\ PositionIn(k.issued, "ROLLBACK") = 0
      /\ k.pc = "done" /\ k.failed # <<>> =>
           /\ k.outcome = "throws"
           /\ PositionIn(k.issued, "ROLLBACK") > PositionIn(k.issued, k.failed[1])
           /\ k.thrown = k.failed[1]
      /\ k.released > 0 => ~k.txOpen

-----------------------------------------------------------------------------
\* C26: on the PGlite backend, once the concurrent calls have completed,
\* every storeMemory that returned has its memory row and its embedding row
\* (unless the memory was deleted), no storeMemory that threw has left its
\* memory row, and every memory whose deleteMemory returned true is gone.
C26_IsolatedOnPGlite ==
  (backend = "pglite" /\ Quiescent) =>
    /\ \A r \in stores : (r.status = "ok" /\ deleted[r.id] = 0) =>
         /\ r.id \in CommittedIds
         /\ \E e \in embeddings[r.embeddingProvider] : e.memory_id = r.id
    /\ \A r \in stores : r.status = "failed" => r.id \notin CommittedIds
    /\ \A id \in Ids : deleted[id] > 0 => id \notin CommittedIds

-----------------------------------------------------------------------------
\* C28: the figures of a getStats result describe one state of the store,
\* also while storeMemory and deleteMemory calls run: totalMemories is
\* openaiEmbeddings + ollamaEmbeddings, and uniqueTags are the tags of the
\* memories that totalMemories counts.
C28_StatsOfOneState ==
  [][(res' # res /\ res'.op = "getStats" /\ res'.val.kind = "stats") =>
       /\ res'.val.totalMemories
            = res'.val.openaiEmbeddings + res'.val.ollamaEmbeddings
       /\ res'.val.totalMemories = Cardinality(stats'.counted)
       /\ {res'.val.uniqueTags[i] : i \in 1..Len(res'.val.uniqueTags)}
            = UNION {m.tags : m \in stats'.counted}
    ]_vars

-----------------------------------------------------------------------------
\* C29: in the similarity query of every valid searchMemories tool call the
\* query vector has the dimension of the vectors of the searched table,
\* whichever provider the call names.
C29_QueryVectorFitsTable ==
  [][(srv.pc = "embedding" /\ srv.tool = "searchMemories"
        /\ srv'.pc # "embedding") =>
       res'.arg[2].dim
         = TableDim(OrProvider(res'.arg[1].embeddingProvider, res'.arg[3]))
    ]_vars

-----------------------------------------------------------------------------
\* C30: when initializeSchema has ended on the client without exec, the
\* texts it submitted are the statements of the script, each complete and
\* in script order, and the schema is the one exec produces.
C30_SplitSubmitsStatements ==
  (backend = "postgresql" /\ schema.pc \in {"done", "failed"}
     /\ schema.script # <<>>) =>
    /\ schema.pc = "done"
    /\ TrimAll(schema.submitted) = ScriptStatements(schema.script)
    /\ schema.applied = ScriptStatements(schema.script)

====
